---- MODULE Spec2Model ----
(***************************************************************************)
(* Model of discover-live-data-schemas.ts (src/unnamed/part_000): the type *)
(* inference engine (inferType, mergeTypes, mergeObjectTypes,              *)
(* mergeMultipleSamples, typeToTs) and the crawl loop of main.             *)
(*                                                                         *)
(* JSON values are records tagged by j:                                    *)
(*   [j |-> "null"], [j |-> "number", n |-> 1], [j |-> "string", s |-> "x"]*)
(*   [j |-> "boolean", b |-> TRUE], [j |-> "array", items |-> <<...>>],    *)
(*   [j |-> "object", entries |-> << [k |-> key, v |-> value], ... >>]     *)
(* An object keeps its entries in insertion order, as Object.entries does. *)
(*                                                                         *)
(* InferredType values are records tagged by kind, as in the source:       *)
(*   [kind |-> "null"], [kind |-> "primitive", type |-> "number"],         *)
(*   [kind |-> "array", elementType |-> t],                                *)
(*   [kind |-> "object", fields |-> << [key, type, occurrences], ... >>],  *)
(*   [kind |-> "union", types |-> << t1, t2, ... >>]                       *)
(* fields is the Map<string, FieldInfo> in its insertion order.            *)
(***************************************************************************)
EXTENDS Integers, Sequences, FiniteSets, TLC

VARIABLES
    \* --- the inference specification (SpecInfer): one bucket on its own
    samples,    \* a bucket's raw samples (TypeEntry.samples)
    merged,     \* mergeMultipleSamples(samples) once generated, else NoType
    rendered,   \* typeToTs(merged, 0, samples.length) once generated
    ipc,        \* "collect" while sampling, "generated" after generation,
                \* "templated" after toTemplate was applied to a value
    \* --- main (Spec)
    pc,                 \* where main is: "step1", "step2", "step3", "step4",
                        \* "after", "write", "exit"
    args,               \* process.argv.slice(2)
    allCategories,      \* Object.keys(tagsByCategories)
    allTags,            \* the tags of all categories, nulls dropped
    targetCategories,
    targetTags,
    warnings,           \* the tokens console.warn reported, in order
    catIdx,             \* categories of the step 2 loop already fetched
    seriesTickers,      \* seriesTickerSet, in insertion order
    batchStart,         \* i of the step 3 loop
    uniqueEvents,       \* eventMap's tickers, in insertion order
    typeMap,            \* Map<string, TypeEntry>, in insertion order
    checked,
    found,
    lastNewTypeAt,
    stop,               \* how the crawl loop ended: "none", "hardcap", "early", "exhausted"
    requested,          \* event tickers live data was requested for, in order
    fetched,            \* the last getLiveDataByEvent call: whether it threw,
                        \* and the liveDatas it returned
    written,            \* directories made and files written by step 5, in order
    exitCode,           \* -1 while running
    \* --- the Proof demo home page (SpecProof): the state of HomePage
    walletAddress,      \* the connected wallet's address, or null
    timestamp,
    signature,
    deepLink,
    signError,
    verifyState,        \* "unknown", "verified", "unverified"
    verifyError,
    isSigning,
    isVerifying,
    signing,            \* the createDeepLink call awaiting solana.signMessage:
                        \* the walletAddress and nextTimestamp of its closure
    verifying,          \* the handleVerify call awaiting verifyWallet: the
                        \* walletAddress of its closure
    now                 \* Date.now()

ivars == <<samples, merged, rendered, ipc>>
planVars == <<args, allCategories, allTags, targetCategories, targetTags, warnings,
              catIdx, seriesTickers, batchStart, uniqueEvents>>
crawlVars == <<typeMap, checked, found, lastNewTypeAt, stop, requested, fetched>>
mainVars == <<pc, planVars, crawlVars, written, exitCode>>
proofVars == <<walletAddress, timestamp, signature, deepLink, signError, verifyState,
               verifyError, isSigning, isVerifying, signing, verifying, now>>
vars == <<ivars, mainVars, proofVars>>

-----------------------------------------------------------------------------
(* Generic sequence helpers (Array.prototype.filter / reduce / flatMap).   *)

\* the elements s[i] with keep[i], in order (Array.prototype.filter)
SelectIdx(s, keep) ==
    LET idx == SelectSeq([i \in 1..Len(s) |-> i], LAMBDA i : keep[i])
    IN [h \in 1..Len(idx) |-> s[idx[h]]]

RECURSIVE Concat(_)
Concat(ss) == IF ss = <<>> THEN <<>> ELSE Head(ss) \o Concat(Tail(ss))

-----------------------------------------------------------------------------
(* JSON sample values.                                                     *)

JNull == [j |-> "null"]
JNum(x) == [j |-> "number", n |-> x]
JStr(x) == [j |-> "string", s |-> x]
JBool(x) == [j |-> "boolean", b |-> x]
JArr(xs) == [j |-> "array", items |-> xs]
JObj(es) == [j |-> "object", entries |-> es]
KV(key, val) == [k |-> key, v |-> val]

-----------------------------------------------------------------------------
(* InferredType constructors.                                              *)

TNull == [kind |-> "null"]
TPrim(x) == [kind |-> "primitive", type |-> x]
TArr(e) == [kind |-> "array", elementType |-> e]
TObj(fs) == [kind |-> "object", fields |-> fs]
TUnion(ts) == [kind |-> "union", types |-> ts]
FieldInfo(key, t, n) == [key |-> key, type |-> t, occurrences |-> n]
NoType == [kind |-> "none"]

Keys(o) == {o.fields[i].key : i \in 1..Len(o.fields)}
Get(o, key) == LET i == CHOOSE i \in 1..Len(o.fields) : o.fields[i].key = key
               IN o.fields[i]

\* flattenUnion with the unwrapping left out
flattenUnionNone(t) == <<t>>

RECURSIVE flattenUnion(_)
\* function flattenUnion: unwrap nested unions into a flat list
flattenUnion(t) ==
    IF t.kind = "union"
    THEN Concat([i \in 1..Len(t.types) |-> flattenUnion(t.types[i])])
    ELSE <<t>>

\* the key of dedup made of the kind alone
dedupKeyKind(t) == t.kind

\* the key dedup computes for a type
dedupKey(t) ==
    IF t.kind = "primitive" THEN "p:" \o t.type
    ELSE IF t.kind = "null" THEN "null"
    ELSE IF t.kind = "array" THEN "array"
    ELSE "object"

\* function dedup: keep the first type of every key, drop the later ones
dedup(types) ==
    SelectIdx(types,
              [i \in 1..Len(types) |->
                  \A h \in 1..(i - 1) : dedupKey(types[h]) # dedupKey(types[i])])

RECURSIVE mergeTypes(_, _)
RECURSIVE mergeObjectTypes(_, _)
RECURSIVE reduceObjects(_, _)

\* objects.reduce((acc, o) => mergeObjectTypes(acc, o)), from acc on
reduceObjects(acc, rest) ==
    IF rest = <<>> THEN acc
    ELSE reduceObjects(mergeObjectTypes(acc, Head(rest)), Tail(rest))

\* function mergeObjectTypes: keys of a in order, then the keys only b has
mergeObjectTypes(a, b) ==
    LET onlyB == SelectIdx(b.fields,
                           [i \in 1..Len(b.fields) |-> b.fields[i].key \notin Keys(a)])
        fromA == [i \in 1..Len(a.fields) |->
                    LET aField == a.fields[i]
                    IN IF aField.key \in Keys(b)
                       THEN LET bField == Get(b, aField.key)
                            IN FieldInfo(aField.key,
                                         mergeTypes(aField.type, bField.type),
                                         aField.occurrences + bField.occurrences)
                       ELSE aField]
    IN TObj(fromA \o onlyB)

\* function mergeTypes
mergeTypes(a, b) ==
    IF a.kind = "null" /\ b.kind = "null" THEN a
    ELSE IF a.kind = "primitive" /\ b.kind = "primitive" /\ a.type = b.type THEN a
    ELSE IF a.kind = "array" /\ b.kind = "array"
         THEN TArr(mergeTypes(a.elementType, b.elementType))
    ELSE IF a.kind = "object" /\ b.kind = "object" THEN mergeObjectTypes(a, b)
    ELSE LET allTypes == dedup(flattenUnion(a) \o flattenUnion(b))
             objects == SelectSeq(allTypes, LAMBDA t : t.kind = "object")
             nonObjects == SelectSeq(allTypes, LAMBDA t : t.kind # "object")
             result == IF Len(objects) > 1
                       THEN nonObjects \o <<reduceObjects(Head(objects), Tail(objects))>>
                       ELSE IF Len(objects) = 1
                            THEN nonObjects \o <<objects[1]>>
                            ELSE nonObjects
         IN IF Len(result) = 1 THEN result[1] ELSE TUnion(result)

RECURSIVE reduceTypes(_, _)
\* types.reduce(mergeTypes) continued from acc
reduceTypes(acc, rest) ==
    IF rest = <<>> THEN acc
    ELSE reduceTypes(mergeTypes(acc, Head(rest)), Tail(rest))

RECURSIVE inferType(_)
\* function inferType
inferType(value) ==
    IF value.j = "null" \/ value.j = "undefined" THEN TNull
    ELSE IF value.j = "string" THEN TPrim("string")
    ELSE IF value.j = "number" THEN TPrim("number")
    ELSE IF value.j = "boolean" THEN TPrim("boolean")
    ELSE IF value.j = "array"
         THEN IF Len(value.items) = 0 THEN TArr(TNull)
              ELSE LET elementTypes == [i \in 1..Len(value.items) |->
                                            inferType(value.items[i])]
                   IN TArr(reduceTypes(Head(elementTypes), Tail(elementTypes)))
    ELSE TObj([i \in 1..Len(value.entries) |->
                 FieldInfo(value.entries[i].k, inferType(value.entries[i].v), 1)])

\* function mergeMultipleSamples
mergeMultipleSamples(ss) ==
    IF Len(ss) = 0 THEN TObj(<<>>)
    ELSE LET types == [i \in 1..Len(ss) |-> inferType(ss[i])]
         IN reduceTypes(Head(types), Tail(types))

-----------------------------------------------------------------------------
(* Rendering.  typeToTs returns a string; it is modelled as the sequence   *)
(* of the string's pieces in order: "\n" for the line joins, one "  " per  *)
(* indentation level, then key, optional marker ("?" or ""), ":" and so on.*)

pad(indent) == [i \in 1..indent |-> "  "]

\* the optional marker with <= for <
optionalLe(occurrences, totalSamples) ==
    IF occurrences <= totalSamples /\ totalSamples > 1 THEN "?" ELSE ""

\* the optional marker of a field (lines 355-356)
optional(occurrences, totalSamples) ==
    IF occurrences < totalSamples /\ totalSamples > 1 THEN "?" ELSE ""

RECURSIVE joinUnion(_)
\* parts.join(" | ")
joinUnion(parts) ==
    IF Len(parts) = 0 THEN <<>>
    ELSE IF Len(parts) = 1 THEN parts[1]
    ELSE parts[1] \o <<"|">> \o joinUnion(Tail(parts))

RECURSIVE typeToTs(_, _, _)
\* function typeToTs
typeToTs(t, indent, totalSamples) ==
    IF t.kind = "null" THEN <<"null">>
    ELSE IF t.kind = "primitive" THEN <<t.type>>
    ELSE IF t.kind = "array"
         THEN LET el == typeToTs(t.elementType, indent, totalSamples)
              IN IF t.elementType.kind = "object" \/ t.elementType.kind = "union"
                 THEN <<"Array<">> \o el \o <<">">>
                 ELSE el \o <<"[]">>
    ELSE IF t.kind = "object"
         THEN IF Len(t.fields) = 0 THEN <<"Record<string, unknown>">>
              ELSE <<"{">>
                   \o Concat([i \in 1..Len(t.fields) |->
                         <<"\n">> \o pad(indent) \o
                         <<"  ", t.fields[i].key,
                           optional(t.fields[i].occurrences, totalSamples), ":">>
                         \o typeToTs(t.fields[i].type, indent + 1, totalSamples)
                         \o <<";">>])
                   \o <<"\n">> \o pad(indent) \o <<"}">>
    ELSE joinUnion([i \in 1..Len(t.types) |->
                       typeToTs(t.types[i], indent, totalSamples)])

-----------------------------------------------------------------------------
(* Program constants (lines 41-62, 603).                                   *)

MAX_SAMPLES_PER_TYPE == 5
EVENTS_PER_BATCH == 10
MIN_EVENTS_BEFORE_EARLY_STOP == 100
MAX_EVENTS_TO_CHECK == 500
EVENTS_AFTER_LAST_NEW_TYPE == 100
BATCH_SIZE == 10

-----------------------------------------------------------------------------
(* The API the run talks to.  Series and event tickers are numbers.        *)

NumSeries == 520    \* series tickers are 1..NumSeries
MaxEntries == 2     \* live-data entries in one response (but for Overflow)

\* <<lo, lo + 1, ..., hi>>
Range(lo, hi) == [i \in 1..(hi - lo + 1) |-> lo + i - 1]

\* add the elements of xs to s as to an array, duplicates kept
AddAllPush(s, xs) == s \o xs

\* add the elements of xs, in order, to the insertion-ordered set s
\* (Set.prototype.add, Map.prototype.set guarded by has)
AddAll(s, xs) ==
    s \o SelectIdx(xs, [i \in 1..Len(xs) |->
                          /\ \A h \in 1..Len(s) : s[h] # xs[i]
                          /\ \A h \in 1..(i - 1) : xs[h] # xs[i]])

Contains(s, x) == \E i \in 1..Len(s) : s[i] = x

\* GET /api/v1/tags_by_categories: category -> tags or null, in key order;
\* "Sports" is a category and a tag
TagsByCategories ==
    << [category |-> "Sports", tags |-> <<"Basketball", "Golf", "Sports">>,
        isNull |-> FALSE],
       [category |-> "Politics", tags |-> <<>>, isNull |-> TRUE] >>

\* GET /api/v1/series?category=c
SeriesOfCategory(c) ==
    IF c = "Sports" THEN Range(1, 12)
    ELSE IF c = "Politics" THEN Range(12, NumSeries)
    ELSE <<>>

SeriesOfTag(t) ==
    IF t = "Basketball" THEN <<1, 2, 3>>
    ELSE IF t = "Golf" THEN <<3, 51>>
    ELSE <<>>

\* GET /api/v1/series?tags=t1,t2
SeriesOfTags(tags) == Concat([i \in 1..Len(tags) |-> SeriesOfTag(tags[i])])

\* the events of one series: series 11 also lists the event of series 10
EventsOfSeries(s) == IF s = 11 THEN <<10, 11>> ELSE <<s>>

\* GET /api/v1/events?seriesTickers=batch&limit=n: at most limit events
EventsOfBatch(batch, limit) ==
    LET all == Concat([i \in 1..Len(batch) |-> EventsOfSeries(batch[i])])
    IN SubSeq(all, 1, IF Len(all) < limit THEN Len(all) ELSE limit)

\* the events that can have live data
LiveEvents == {1, 51, 451}

Details0 == JObj(<<>>)
Details1 == JObj(<<KV("a", JNum(1))>>)

Entry(t, d) == [type |-> t, details |-> d]

\* one live-data entry: type and details present or not
EntryValues ==
    { Entry(JStr("basketball_game"), Details0),
      Entry(JStr("basketball_game"), Details1),
      Entry(JStr("golf_round"), Details1),
      Entry(JNull, Details1),
      Entry(JStr(""), Details0),
      Entry(JStr("golf_round"), JNull) }

RECURSIVE SeqsUpTo(_, _)
\* the sequences over S of length at most n
SeqsUpTo(S, n) ==
    IF n = 0 THEN {<<>>}
    ELSE LET shorter == SeqsUpTo(S, n - 1)
         IN shorter \cup {Append(q, x) : q \in shorter, x \in S}

\* a response with more entries of one type than a bucket stores
Overflow ==
    [i \in 1..(MAX_SAMPLES_PER_TYPE + 1) |->
        Entry(JStr("basketball_game"), IF i = 1 THEN Details1 ELSE Details0)]

\* a response with one entry, of a type named with a hyphen
Hyphenated == <<Entry(JStr("golf-round"), Details1)>>

\* GET /api/v1/live_data/by-event/e: the live_datas a successful call can return
LiveDatas(e) ==
    IF e \in LiveEvents
    THEN SeqsUpTo(EntryValues, MaxEntries) \cup {Overflow, Hyphenated}
    ELSE {<<>>}

\* the command lines tried
ArgLists ==
    { <<>>, <<"Sports">>, <<"Basketball", "NotARealTag">>, <<"Golf", "Sports">>,
      <<"NotARealTag">>, <<"--all">>, <<"--all", "Golf">>, <<"--dry", "Basketball">> }

\* a.startsWith("--")
startsWithDashes(a) == a \in {"--all", "--dry"}

-----------------------------------------------------------------------------
(* main, steps 1 to 3: planning.                                           *)

\* truthiness with the empty object and the empty array falsy
TruthyNonEmpty(v) ==
    IF v.j = "null" THEN FALSE
    ELSE IF v.j = "string" THEN v.s # ""
    ELSE IF v.j = "number" THEN v.n # 0
    ELSE IF v.j = "boolean" THEN v.b
    ELSE IF v.j = "object" THEN v.entries # <<>>
    ELSE IF v.j = "array" THEN v.items # <<>>
    ELSE TRUE

\* JavaScript truthiness of a JSON value
Truthy(v) ==
    IF v.j = "null" THEN FALSE
    ELSE IF v.j = "string" THEN v.s # ""
    ELSE IF v.j = "number" THEN v.n # 0
    ELSE IF v.j = "boolean" THEN v.b
    ELSE TRUE

crawlAll == Contains(args, "--all")
requestedFilters == SelectSeq(args, LAMBDA a : ~startsWithDashes(a))

RECURSIVE resolveFilters(_, _, _)
\* the loop over requestedFilters (lines 559-569); acc = [categories, tags, warned]
resolveFilters(filters, cats, acc) ==
    IF filters = <<>> THEN acc
    ELSE LET filter == Head(filters)
         IN resolveFilters(Tail(filters), cats,
               IF Contains(cats.categories, filter)
               THEN [acc EXCEPT !.categories = Append(@, filter)]
               ELSE IF Contains(cats.tags, filter)
                    THEN [acc EXCEPT !.tags = Append(@, filter)]
                    ELSE [acc EXCEPT !.warned = Append(@, filter)])

\* target resolution looking at the filters before the --all flag
resolveTargetsFiltersFirst(cats) ==
    IF Len(requestedFilters) > 0
    THEN resolveFilters(requestedFilters, cats,
                        [categories |-> <<>>, tags |-> <<>>, warned |-> <<>>])
    ELSE IF crawlAll
         THEN [categories |-> cats.categories, tags |-> <<>>, warned |-> <<>>]
         ELSE [categories |-> <<"Sports">>, tags |-> <<>>, warned |-> <<>>]

\* lines 550-577: what to crawl, given the known categories and tags
resolveTargets(cats) ==
    IF crawlAll
    THEN [categories |-> cats.categories, tags |-> <<>>, warned |-> <<>>]
    ELSE IF Len(requestedFilters) > 0
         THEN resolveFilters(requestedFilters, cats,
                             [categories |-> <<>>, tags |-> <<>>, warned |-> <<>>])
         ELSE [categories |-> <<"Sports">>, tags |-> <<>>, warned |-> <<>>]

\* a mandatory call throws and the run exits with code 0
AbortClean ==
    /\ pc' = "exit"
    /\ exitCode' = 0

\* a mandatory call throws: main().catch exits with code 1 (lines 786-789)
Abort ==
    /\ pc' = "exit"
    /\ exitCode' = 1

\* step 1 and target resolution (lines 528-578)
Step1 ==
    /\ pc = "step1"
    /\ LET cats == [categories |-> [i \in 1..Len(TagsByCategories) |->
                                       TagsByCategories[i].category],
                    tags |-> Concat([i \in 1..Len(TagsByCategories) |->
                                       IF TagsByCategories[i].isNull THEN <<>>
                                       ELSE TagsByCategories[i].tags])]
           target == resolveTargets(cats)
       IN /\ allCategories' = cats.categories
          /\ allTags' = cats.tags
          /\ targetCategories' = target.categories
          /\ targetTags' = target.tags
          /\ warnings' = target.warned
    /\ pc' = "step2"
    /\ UNCHANGED <<args, catIdx, seriesTickers, batchStart, uniqueEvents,
                   crawlVars, written, exitCode, ivars, proofVars>>

\* getTagsByCategories throws
Step1Fail ==
    /\ pc = "step1"
    /\ Abort
    /\ UNCHANGED <<planVars, crawlVars, written, ivars, proofVars>>

\* one iteration of the loop over targetCategories (lines 584-588)
Step2Category ==
    /\ pc = "step2"
    /\ catIdx < Len(targetCategories)
    /\ seriesTickers' = AddAll(seriesTickers, SeriesOfCategory(targetCategories[catIdx + 1]))
    /\ catIdx' = catIdx + 1
    /\ UNCHANGED <<pc, args, allCategories, allTags, targetCategories, targetTags,
                   warnings, batchStart, uniqueEvents, crawlVars, written, exitCode,
                   ivars, proofVars>>

\* getSeriesByCategory throws
Step2CategoryFail ==
    /\ pc = "step2"
    /\ catIdx < Len(targetCategories)
    /\ Abort
    /\ UNCHANGED <<planVars, crawlVars, written, ivars, proofVars>>

\* the series of the target tags, if any (lines 590-597)
Step2Tags ==
    /\ pc = "step2"
    /\ catIdx = Len(targetCategories)
    /\ seriesTickers' = IF Len(targetTags) > 0
                        THEN AddAll(seriesTickers, SeriesOfTags(targetTags))
                        ELSE seriesTickers
    /\ pc' = "step3"
    /\ UNCHANGED <<args, allCategories, allTags, targetCategories, targetTags,
                   warnings, catIdx, batchStart, uniqueEvents, crawlVars, written,
                   exitCode, ivars, proofVars>>

\* getSeriesByTags throws
Step2TagsFail ==
    /\ pc = "step2"
    /\ catIdx = Len(targetCategories)
    /\ Len(targetTags) > 0
    /\ Abort
    /\ UNCHANGED <<planVars, crawlVars, written, ivars, proofVars>>

\* one batch of the step 3 loop (lines 604-616)
Step3Batch ==
    /\ pc = "step3"
    /\ batchStart < Len(seriesTickers)
    /\ LET last == IF batchStart + BATCH_SIZE < Len(seriesTickers)
                   THEN batchStart + BATCH_SIZE ELSE Len(seriesTickers)
           batch == SubSeq(seriesTickers, batchStart + 1, last)
       IN uniqueEvents' = AddAll(uniqueEvents, EventsOfBatch(batch, EVENTS_PER_BATCH))
    /\ batchStart' = batchStart + BATCH_SIZE
    /\ UNCHANGED <<pc, args, allCategories, allTags, targetCategories, targetTags,
                   warnings, catIdx, seriesTickers, crawlVars, written, exitCode,
                   ivars, proofVars>>

\* getEvents throws
Step3BatchFail ==
    /\ pc = "step3"
    /\ batchStart < Len(seriesTickers)
    /\ Abort
    /\ UNCHANGED <<planVars, crawlVars, written, ivars, proofVars>>

\* the step 3 loop is over (lines 618-629)
Step3Done ==
    /\ pc = "step3"
    /\ batchStart >= Len(seriesTickers)
    /\ pc' = "step4"
    /\ UNCHANGED <<planVars, crawlVars, written, exitCode, ivars, proofVars>>

-----------------------------------------------------------------------------
(* main, step 4: the crawl loop.                                           *)

TypeEntry(name, ss, tickers) == [name |-> name, samples |-> ss, eventTickers |-> tickers]

\* typeMap.has(name)
Has(map, name) == \E i \in 1..Len(map) : map[i].name = name

IndexOf(map, name) == CHOOSE i \in 1..Len(map) : map[i].name = name

\* the body of the loop over one entry, storing every sample
processEntryNoCap(st, ld, ticker, nowChecked) ==
    IF ~Truthy(ld.type) \/ ~Truthy(ld.details) THEN st
    ELSE LET isNew == ~Has(st.typeMap, ld.type.s)
             map1 == IF isNew
                     THEN Append(st.typeMap, TypeEntry(ld.type.s, <<>>, <<>>))
                     ELSE st.typeMap
             i == IndexOf(map1, ld.type.s)
         IN [typeMap |-> [map1 EXCEPT ![i] =
                             TypeEntry(@.name,
                                       Append(@.samples, ld.details),
                                       Append(@.eventTickers, ticker))],
             found |-> st.found + 1,
             lastNewTypeAt |-> IF isNew THEN nowChecked ELSE st.lastNewTypeAt]

\* the body of the loop over one entry, a bucket at the cap dropping its
\* oldest sample for the new one
processEntryRing(st, ld, ticker, nowChecked) ==
    IF ~Truthy(ld.type) \/ ~Truthy(ld.details) THEN st
    ELSE LET isNew == ~Has(st.typeMap, ld.type.s)
             map1 == IF isNew
                     THEN Append(st.typeMap, TypeEntry(ld.type.s, <<>>, <<>>))
                     ELSE st.typeMap
             i == IndexOf(map1, ld.type.s)
             full == Len(map1[i].samples) >= MAX_SAMPLES_PER_TYPE
         IN [typeMap |-> [map1 EXCEPT ![i] =
                             TypeEntry(@.name,
                                       Append(IF full THEN Tail(@.samples)
                                              ELSE @.samples, ld.details),
                                       Append(IF full THEN Tail(@.eventTickers)
                                              ELSE @.eventTickers, ticker))],
             found |-> st.found + 1,
             lastNewTypeAt |-> IF isNew THEN nowChecked ELSE st.lastNewTypeAt]

\* the body of the loop over one entry, recording the event of a bucket's
\* first sample only
processEntryFirstTicker(st, ld, ticker, nowChecked) ==
    IF ~Truthy(ld.type) \/ ~Truthy(ld.details) THEN st
    ELSE LET isNew == ~Has(st.typeMap, ld.type.s)
             map1 == IF isNew
                     THEN Append(st.typeMap, TypeEntry(ld.type.s, <<>>, <<>>))
                     ELSE st.typeMap
             i == IndexOf(map1, ld.type.s)
             map2 == IF Len(map1[i].samples) < MAX_SAMPLES_PER_TYPE
                     THEN [map1 EXCEPT ![i] =
                             TypeEntry(@.name,
                                       Append(@.samples, ld.details),
                                       IF isNew THEN Append(@.eventTickers, ticker)
                                                ELSE @.eventTickers)]
                     ELSE map1
         IN [typeMap |-> map2,
             found |-> st.found + 1,
             lastNewTypeAt |-> IF isNew THEN nowChecked ELSE st.lastNewTypeAt]

\* the body of the loop over one entry (lines 646-663); st = [typeMap, found, lastNewTypeAt]
processEntry(st, ld, ticker, nowChecked) ==
    IF ~Truthy(ld.type) \/ ~Truthy(ld.details) THEN st
    ELSE LET isNew == ~Has(st.typeMap, ld.type.s)
             map1 == IF isNew
                     THEN Append(st.typeMap, TypeEntry(ld.type.s, <<>>, <<>>))
                     ELSE st.typeMap
             i == IndexOf(map1, ld.type.s)
             map2 == IF Len(map1[i].samples) < MAX_SAMPLES_PER_TYPE
                     THEN [map1 EXCEPT ![i] =
                             TypeEntry(@.name,
                                       Append(@.samples, ld.details),
                                       Append(@.eventTickers, ticker))]
                     ELSE map1
         IN [typeMap |-> map2,
             found |-> st.found + 1,
             lastNewTypeAt |-> IF isNew THEN nowChecked ELSE st.lastNewTypeAt]

RECURSIVE processEntries(_, _, _, _)
\* for (const ld of liveDatas) (line 645)
processEntries(st, liveDatas, ticker, nowChecked) ==
    IF liveDatas = <<>> THEN st
    ELSE processEntries(processEntry(st, Head(liveDatas), ticker, nowChecked),
                        Tail(liveDatas), ticker, nowChecked)

\* the early stop with the quiet window counted from the first event
earlyStopFromStart(size, nowChecked, lastNew) ==
    /\ size > 0
    /\ nowChecked >= MIN_EVENTS_BEFORE_EARLY_STOP
    /\ nowChecked >= EVENTS_AFTER_LAST_NEW_TYPE

\* the early stop with > for >= on the quiet window
earlyStopStrict(size, nowChecked, lastNew) ==
    /\ size > 0
    /\ nowChecked >= MIN_EVENTS_BEFORE_EARLY_STOP
    /\ nowChecked - lastNew > EVENTS_AFTER_LAST_NEW_TYPE

\* the early stop with the hard cap as its minimum
earlyStopWrongMin(size, nowChecked, lastNew) ==
    /\ size > 0
    /\ nowChecked >= MAX_EVENTS_TO_CHECK
    /\ nowChecked - lastNew >= EVENTS_AFTER_LAST_NEW_TYPE

\* the early-stop condition (lines 681-685)
earlyStop(size, nowChecked, lastNew) ==
    /\ size > 0
    /\ nowChecked >= MIN_EVENTS_BEFORE_EARLY_STOP
    /\ nowChecked - lastNew >= EVENTS_AFTER_LAST_NEW_TYPE

\* the hard cap left out
hardCapNone(nowChecked) == FALSE

\* the hard cap with > for >=
hardCapLate(nowChecked) == nowChecked > MAX_EVENTS_TO_CHECK

\* the hard cap (line 672)
hardCap(nowChecked) == nowChecked >= MAX_EVENTS_TO_CHECK

\* the end of the loop body: the two stop conditions (lines 671-690)
AfterEvent(st, nowChecked) ==
    /\ typeMap' = st.typeMap
    /\ found' = st.found
    /\ lastNewTypeAt' = st.lastNewTypeAt
    /\ stop' = IF hardCap(nowChecked) THEN "hardcap"
               ELSE IF earlyStop(Len(st.typeMap), nowChecked, st.lastNewTypeAt)
                    THEN "early"
                    ELSE "none"
    /\ pc' = IF stop' = "none" THEN "step4" ELSE "after"

\* the outcome of await getLiveDataByEvent(event.ticker) (line 643)
Returned(liveDatas) == [threw |-> FALSE, liveDatas |-> liveDatas]
Threw == [threw |-> TRUE, liveDatas |-> <<>>]

\* one iteration of the crawl loop with the entries processed under the
\* 0-based position of the event
CrawlEventZeroBased ==
    /\ pc = "step4"
    /\ checked < Len(uniqueEvents)
    /\ checked' = checked + 1
    /\ requested' = Append(requested, uniqueEvents[checked + 1])
    /\ \E liveDatas \in LiveDatas(uniqueEvents[checked + 1]) :
          /\ fetched' = Returned(liveDatas)
          /\ AfterEvent(processEntries([typeMap |-> typeMap, found |-> found,
                                        lastNewTypeAt |-> lastNewTypeAt],
                                       liveDatas, uniqueEvents[checked + 1], checked),
                        checked + 1)
    /\ UNCHANGED <<planVars, written, exitCode, ivars, proofVars>>

\* one iteration of the crawl loop, the live-data call returning liveDatas
\* (lines 631-664 and 669-690)
CrawlEvent ==
    /\ pc = "step4"
    /\ checked < Len(uniqueEvents)
    /\ checked' = checked + 1
    /\ requested' = Append(requested, uniqueEvents[checked + 1])
    /\ \E liveDatas \in LiveDatas(uniqueEvents[checked + 1]) :
          /\ fetched' = Returned(liveDatas)
          /\ AfterEvent(processEntries([typeMap |-> typeMap, found |-> found,
                                        lastNewTypeAt |-> lastNewTypeAt],
                                       liveDatas, uniqueEvents[checked + 1], checked + 1),
                        checked + 1)
    /\ UNCHANGED <<planVars, written, exitCode, ivars, proofVars>>

\* the live-data call throwing with no catch around it: the run aborts
CrawlEventFailUncaught ==
    /\ pc = "step4"
    /\ checked < Len(uniqueEvents)
    /\ checked' = checked + 1
    /\ requested' = Append(requested, uniqueEvents[checked + 1])
    /\ fetched' = Threw
    /\ Abort
    /\ UNCHANGED <<planVars, typeMap, found, lastNewTypeAt, stop, written, ivars, proofVars>>

\* one iteration of the crawl loop, the live-data call throwing (lines 665-667)
CrawlEventFail ==
    /\ pc = "step4"
    /\ checked < Len(uniqueEvents)
    /\ checked' = checked + 1
    /\ requested' = Append(requested, uniqueEvents[checked + 1])
    /\ fetched' = Threw
    /\ AfterEvent([typeMap |-> typeMap, found |-> found,
                   lastNewTypeAt |-> lastNewTypeAt],
                  checked + 1)
    /\ UNCHANGED <<planVars, written, exitCode, ivars, proofVars>>

\* the loop over uniqueEvents has no event left (line 631)
CrawlExhausted ==
    /\ pc = "step4"
    /\ checked >= Len(uniqueEvents)
    /\ stop' = "exhausted"
    /\ pc' = "after"
    /\ UNCHANGED <<planVars, typeMap, checked, found, lastNewTypeAt, requested,
                   fetched, written, exitCode, ivars, proofVars>>

-----------------------------------------------------------------------------
(* main, after the crawl: exit or step 5.                                  *)

\* result[k] = value on result = {} (line 417): an assignment, not a property
\* definition, so for k = "__proto__" it runs the setter inherited from
\* Object.prototype (which sets the prototype if value is an object and does
\* nothing otherwise) and result gets no own key; any other k becomes an own
\* key, in assignment order
assignAll(entries) == SelectSeq(entries, LAMBDA e : e.k # "__proto__")

\* function toTemplate
RECURSIVE toTemplate(_)
toTemplate(obj) ==
    IF obj.j = "null" THEN JStr("<null>")
    ELSE IF obj.j = "undefined" THEN JStr("<undefined>")
    ELSE IF obj.j = "string" THEN JStr("<string>")
    ELSE IF obj.j = "number" THEN JStr("<number>")
    ELSE IF obj.j = "boolean" THEN JStr("<boolean>")
    ELSE IF obj.j = "array"
         THEN IF Len(obj.items) = 0 THEN JArr(<<>>)
              ELSE JArr(<<toTemplate(obj.items[1])>>)
    ELSE IF obj.j = "object"
         THEN JObj(assignAll([i \in 1..Len(obj.entries) |->
                      KV(obj.entries[i].k, toTemplate(obj.entries[i].v))]))
    ELSE JStr("<unknown>")

\* no type was found, reported as an error: process.exit(1)
ExitNoTypesError ==
    /\ pc = "after"
    /\ Len(typeMap) = 0
    /\ pc' = "exit"
    /\ exitCode' = 1
    /\ UNCHANGED <<planVars, crawlVars, written, ivars, proofVars>>

\* no type was found: process.exit(0) (lines 702-708)
ExitNoTypes ==
    /\ pc = "after"
    /\ Len(typeMap) = 0
    /\ pc' = "exit"
    /\ exitCode' = 0
    /\ UNCHANGED <<planVars, crawlVars, written, ivars, proofVars>>

\* the characters of the type names the API returns
Chars(s) ==
    IF s = "basketball_game"
    THEN <<"b", "a", "s", "k", "e", "t", "b", "a", "l", "l", "_", "g", "a", "m", "e">>
    ELSE IF s = "golf_round"
    THEN <<"g", "o", "l", "f", "_", "r", "o", "u", "n", "d">>
    ELSE IF s = "golf-round"
    THEN <<"g", "o", "l", "f", "-", "r", "o", "u", "n", "d">>
    ELSE <<>>

LowerCase ==
    <<"a", "b", "c", "d", "e", "f", "g", "h", "i", "j", "k", "l", "m",
      "n", "o", "p", "q", "r", "s", "t", "u", "v", "w", "x", "y", "z">>
UpperCase ==
    <<"A", "B", "C", "D", "E", "F", "G", "H", "I", "J", "K", "L", "M",
      "N", "O", "P", "Q", "R", "S", "T", "U", "V", "W", "X", "Y", "Z">>

\* String.prototype.toUpperCase / toLowerCase on one character
toUpperCase(c) ==
    IF \E i \in 1..Len(LowerCase) : LowerCase[i] = c
    THEN UpperCase[CHOOSE i \in 1..Len(LowerCase) : LowerCase[i] = c]
    ELSE c
toLowerCase(c) ==
    IF \E i \in 1..Len(UpperCase) : UpperCase[i] = c
    THEN LowerCase[CHOOSE i \in 1..Len(UpperCase) : UpperCase[i] = c]
    ELSE c

RECURSIVE split(_, _, _)
\* chars.split(/[_-]/): the words between separators, empty words kept;
\* word is the word being read, words the words read
split(chars, word, words) ==
    IF chars = <<>> THEN Append(words, word)
    ELSE IF Head(chars) \in {"_", "-"}
         THEN split(Tail(chars), <<>>, Append(words, word))
         ELSE split(Tail(chars), Append(word, Head(chars)), words)

RECURSIVE join(_)
\* the string of a sequence of characters (Array.prototype.join(""))
join(chars) == IF chars = <<>> THEN "" ELSE Head(chars) \o join(Tail(chars))

\* function snakeToPascal (lines 372-377)
snakeToPascal(s) ==
    LET words == split(Chars(s), <<>>, <<>>)
        capitalised(w) ==
            IF w = <<>> THEN <<>>
            ELSE <<toUpperCase(w[1])>> \o
                 [i \in 1..(Len(w) - 1) |-> toLowerCase(w[i + 1])]
    IN join(Concat([i \in 1..Len(words) |-> capitalised(words[i])]))

\* the definition generateTypesFile writes for one bucket (lines 464-480)
interfaceOf(entry) ==
    [typeName |-> entry.name,
     interfaceName |-> snakeToPascal(entry.name) \o "Details",
     sampleCount |-> Len(entry.samples),
     attribution |-> SubSeq(entry.eventTickers, 1,
                            IF Len(entry.eventTickers) < 3
                            THEN Len(entry.eventTickers) ELSE 3),
     ellipsis |-> Len(entry.eventTickers) > 3,
     body |-> typeToTs(mergeMultipleSamples(entry.samples), 0, Len(entry.samples))]

\* the member of the LiveData union for one bucket (lines 494-496):
\* { type: "<typeName>"; details: <interfaceName>; milestone_id: string }
unionMember(typeName, interfaceName) ==
    [type |-> typeName, details |-> interfaceName, milestone_id |-> "string"]

\* the type guard of one bucket (lines 511-517):
\* function <guardName>(ld) { return ld.type === "<typeName>"; }
typeGuard(typeName) ==
    [guardName |-> "is" \o snakeToPascal(typeName), literal |-> typeName]

\* function generateTypesFile with the guards of all buckets but the first
generateTypesFileFromSecond(map) ==
    LET interfaces == [i \in 1..Len(map) |-> interfaceOf(map[i])]
    IN [interfaces |-> interfaces,
        union |-> [i \in 1..Len(map) |->
                     unionMember(interfaces[i].typeName, interfaces[i].interfaceName)],
        guards |-> [i \in 1..(Len(map) - 1) |-> typeGuard(interfaces[i + 1].typeName)]]

\* function generateTypesFile: definitions, union members and guards
generateTypesFile(map) ==
    LET interfaces == [i \in 1..Len(map) |-> interfaceOf(map[i])]
    IN [interfaces |-> interfaces,
        union |-> [i \in 1..Len(map) |->
                     unionMember(interfaces[i].typeName, interfaces[i].interfaceName)],
        guards |-> [i \in 1..Len(map) |-> typeGuard(interfaces[i].typeName)]]

\* step 5: the directories and the types file (lines 710-722)
Step5Types ==
    /\ pc = "after"
    /\ Len(typeMap) > 0
    /\ written' = written \o
          << [file |-> "mkdir", type |-> "examples", content |-> JNull],
             [file |-> "mkdir", type |-> "templates", content |-> JNull],
             [file |-> "types", type |-> "", content |-> generateTypesFile(typeMap)] >>
    /\ pc' = "write"
    /\ UNCHANGED <<planVars, crawlVars, exitCode, ivars, proofVars>>

\* the buckets whose example and template are written
bucketsWritten == (Len(written) - 3) \div 2

\* step 5 writing a bucket's last sample for its first
Step5BucketLast ==
    /\ pc = "write"
    /\ bucketsWritten < Len(typeMap)
    /\ LET entry == typeMap[bucketsWritten + 1]
           last == entry.samples[Len(entry.samples)]
       IN written' = written \o
             << [file |-> "example", type |-> entry.name, content |-> last],
                [file |-> "template", type |-> entry.name,
                 content |-> toTemplate(last)] >>
    /\ UNCHANGED <<pc, planVars, crawlVars, exitCode, ivars, proofVars>>

\* step 5: the example and the template of one bucket (lines 725-756)
Step5Bucket ==
    /\ pc = "write"
    /\ bucketsWritten < Len(typeMap)
    /\ LET entry == typeMap[bucketsWritten + 1]
       IN written' = written \o
             << [file |-> "example", type |-> entry.name,
                 content |-> entry.samples[1]],
                [file |-> "template", type |-> entry.name,
                 content |-> toTemplate(entry.samples[1])] >>
    /\ UNCHANGED <<pc, planVars, crawlVars, exitCode, ivars, proofVars>>

\* the summary; main returns (lines 758-784)
Summary ==
    /\ pc = "write"
    /\ bucketsWritten >= Len(typeMap)
    /\ pc' = "exit"
    /\ exitCode' = 0
    /\ UNCHANGED <<planVars, crawlVars, written, ivars, proofVars>>

-----------------------------------------------------------------------------
(* The specification of main.                                              *)

InferIdle ==
    /\ samples = <<>>
    /\ merged = NoType
    /\ rendered = <<>>
    /\ ipc = "collect"

\* HomePage as mounted: no wallet, the useState initial values (lines 281-288),
\* no call in flight
ProofIdle ==
    /\ walletAddress = JNull
    /\ timestamp = JNull
    /\ signature = JNull
    /\ deepLink = JNull
    /\ signError = JNull
    /\ verifyState = "unknown"
    /\ verifyError = JNull
    /\ isSigning = FALSE
    /\ isVerifying = FALSE
    /\ signing = JNull
    /\ verifying = JNull
    /\ now = 1

MainIdle ==
    /\ pc = "step1"
    /\ allCategories = <<>>
    /\ allTags = <<>>
    /\ targetCategories = <<>>
    /\ targetTags = <<>>
    /\ warnings = <<>>
    /\ catIdx = 0
    /\ seriesTickers = <<>>
    /\ batchStart = 0
    /\ uniqueEvents = <<>>
    /\ typeMap = <<>>
    /\ checked = 0
    /\ found = 0
    /\ lastNewTypeAt = 0
    /\ stop = "none"
    /\ requested = <<>>
    /\ fetched = Returned(<<>>)
    /\ written = <<>>
    /\ exitCode = -1

Init ==
    /\ args \in ArgLists
    /\ MainIdle
    /\ InferIdle
    /\ ProofIdle

Next ==
    \/ Step1
    \/ Step1Fail
    \/ Step2Category
    \/ Step2CategoryFail
    \/ Step2Tags
    \/ Step2TagsFail
    \/ Step3Batch
    \/ Step3BatchFail
    \/ Step3Done
    \/ CrawlEvent
    \/ CrawlEventFail
    \/ CrawlExhausted
    \/ ExitNoTypes
    \/ Step5Types
    \/ Step5Bucket
    \/ Summary

Spec == Init /\ [][Next]_vars

\* main leaving the position before step 5 with a non-empty mapping (lines
\* 710-722): Step5Types seen as a change of position only
Step5Begins ==
    /\ pc = "after"
    /\ Len(typeMap) > 0
    /\ pc' = "write"

\* at every other position, the steps of main that decide whether it can
\* move on: Step2Category and CrawlEvent are possible exactly where
\* Step2CategoryFail and CrawlEventFail are (the same call, returning or
\* throwing)
Awaited ==
    \/ Step1
    \/ Step1Fail
    \/ Step2CategoryFail
    \/ Step2Tags
    \/ Step2TagsFail
    \/ Step3Batch
    \/ Step3BatchFail
    \/ Step3Done
    \/ CrawlEventFail
    \/ CrawlExhausted
    \/ ExitNoTypes
    \/ Step5Bucket
    \/ Summary

\* main where every awaited call (request, sleep or file write) eventually
\* returns or throws, so that main does not stay at a position forever: a
\* behaviour that stops at a position where a step is possible is excluded
SpecLive == Spec /\ WF_vars(Awaited) /\ WF_pc(Step5Begins)

-----------------------------------------------------------------------------
(* The sample universe of the inference specification.                     *)

MaxBucket == 3

ObjP == JObj(<<KV("p", JNum(1))>>)
ObjP2 == JObj(<<KV("p", JNum(2))>>)
ObjQ == JObj(<<KV("q", JStr("s"))>>)

\* values a sample's field "a" can hold
FieldValues ==
    { JNull, JNum(1), JStr("s"), ObjP, ObjQ,
      JArr(<<>>), JArr(<<JNull, ObjP>>), JArr(<<ObjP, ObjP2>>) }

\* raw details objects: {"a": v}, and the samples with or without "a" and "b"
SampleValues ==
    { JObj(<<KV("a", v)>>) : v \in FieldValues } \cup
    { JObj(<<>>),
      JObj(<<KV("a", JNum(1)), KV("b", JStr("x"))>>),
      JObj(<<KV("a", JNum(2))>>),
      JObj(<<KV("b", JStr("x"))>>) }

-----------------------------------------------------------------------------
(* Inference specification: a bucket is filled sample by sample, then its  *)
(* definition is generated as generateTypesFile does for one bucket.       *)

InitInfer ==
    /\ InferIdle
    /\ args = <<>>
    /\ MainIdle
    /\ ProofIdle

\* entry.samples.push(ld.details) (lines 660-661)
Collect(v) ==
    /\ ipc = "collect"
    /\ Len(samples) < MaxBucket
    /\ samples' = Append(samples, v)
    /\ UNCHANGED <<merged, rendered, ipc, mainVars, proofVars>>

\* Generate with the sample cap passed as totalSamples
GenerateCap ==
    /\ ipc = "collect"
    /\ Len(samples) >= 1
    /\ merged' = mergeMultipleSamples(samples)
    /\ rendered' = typeToTs(mergeMultipleSamples(samples), 0, MAX_SAMPLES_PER_TYPE)
    /\ ipc' = "generated"
    /\ UNCHANGED <<samples, mainVars, proofVars>>

\* generateTypesFile for the bucket (lines 468, 477)
Generate ==
    /\ ipc = "collect"
    /\ Len(samples) >= 1
    /\ merged' = mergeMultipleSamples(samples)
    /\ rendered' = typeToTs(mergeMultipleSamples(samples), 0, Len(samples))
    /\ ipc' = "generated"
    /\ UNCHANGED <<samples, mainVars, proofVars>>

\* the leaves of the values toTemplate is applied to
TemplateLeaves ==
    { JNull, [j |-> "undefined"], JStr("s"), JStr("<number>"), JNum(1), JBool(TRUE) }

\* the keys of the objects toTemplate is applied to
TemplateKeys == {"a", "b", "__proto__"}

\* arrays of at most two of the values of S, and objects of at most two keys
\* holding values of S
Composites(S) ==
    { JArr(xs) : xs \in SeqsUpTo(S, 2) } \cup
    { JObj(<<>>) } \cup
    { JObj(<<KV(k, v)>>) : k \in TemplateKeys, v \in S } \cup
    { JObj(<<KV("a", v), KV(k, w)>>) : k \in TemplateKeys \ {"a"}, v \in S, w \in S }

\* the values toTemplate is applied to: leaves, composites of leaves, and
\* composites of some of those
TemplateValues ==
    TemplateLeaves \cup Composites(TemplateLeaves) \cup
    Composites({ JNum(1), JArr(<<>>), JArr(<<JStr("s"), JNum(1)>>), JObj(<<>>),
                 JObj(<<KV("b", JBool(TRUE))>>),
                 JObj(<<KV("a", JNull), KV("__proto__", JNum(1))>>) })

\* the example and the template of one value (lines 727-738), on its own
Template(v) ==
    /\ ipc = "collect"
    /\ samples = <<>>
    /\ written' = << [file |-> "example", type |-> "", content |-> v],
                     [file |-> "template", type |-> "", content |-> toTemplate(v)] >>
    /\ ipc' = "templated"
    /\ UNCHANGED <<samples, merged, rendered, pc, planVars, crawlVars, exitCode,
                   proofVars>>

NextInfer ==
    \/ \E v \in SampleValues : Collect(v)
    \/ Generate
    \/ \E v \in TemplateValues : Template(v)

SpecInfer == InitInfer /\ [][NextInfer]_vars

-----------------------------------------------------------------------------
(* The Proof demo home page (src/proof, app/page.tsx): the wallet, the     *)
(* sign and verify handlers and their awaited calls.                       *)

\* the addresses the wallet provider can report
Wallets == {"walletA", "walletB"}

\* the addresses the verify endpoint reports as verified
VerifiedWallets == {"walletA"}

\* the values Date.now() takes
MaxClock == 2

\* the signature of message by the wallet signer, encoded (encodeSignature,
\* lines 66-71): a value that determines both
Signed(signer, message) == [j |-> "signature", signer |-> signer, message |-> message]

\* buildProofMessage (lines 61-63)
buildProofMessage(t) == [text |-> "Proof KYC verification: ", timestamp |-> t]

\* buildRedirectUri (lines 74-78)
buildRedirectUri(baseRedirectUri, wallet) == [base |-> baseRedirectUri, wallet |-> wallet]

\* buildDeepLink (lines 80-100)
buildDeepLink(wallet, sig, t, redirectUri, portal) ==
    [j |-> "link", portal |-> portal, wallet |-> wallet, signature |-> sig,
     timestamp |-> t, redirect_uri |-> redirectUri]

\* the effect of lines 303-311, run when walletAddress changes
ResetDerived ==
    /\ timestamp' = JNull
    /\ signature' = JNull
    /\ deepLink' = JNull
    /\ signError' = JNull
    /\ verifyState' = "unknown"
    /\ verifyError' = JNull

\* the accounts of the wallet provider change (connect, disconnect, switch):
\* walletAddress (lines 272-278) becomes w and the reset effect runs
WalletChanges(w) ==
    /\ w # walletAddress
    /\ walletAddress' = w
    /\ ResetDerived
    /\ UNCHANGED <<isSigning, isVerifying, signing, verifying, now, ivars, mainVars>>

\* "Sign message" is clicked (enabled when walletAddress && !isSigning) with
\* no provider: createDeepLink, lines 318-321
CreateDeepLinkNoProvider ==
    /\ Truthy(walletAddress)
    /\ ~isSigning
    /\ signError' = JStr("Phantom Solana provider is not available.")
    /\ UNCHANGED <<walletAddress, timestamp, signature, deepLink, verifyState,
                   verifyError, isSigning, isVerifying, signing, verifying, now,
                   ivars, mainVars>>

\* "Sign message" is clicked: createDeepLink up to await solana.signMessage
\* (lines 323-330)
CreateDeepLink ==
    /\ Truthy(walletAddress)
    /\ ~isSigning
    /\ now <= MaxClock
    /\ isSigning' = TRUE
    /\ signError' = JNull
    /\ signing' = [walletAddress |-> walletAddress, nextTimestamp |-> now]
    /\ now' = now + 1
    /\ UNCHANGED <<walletAddress, timestamp, signature, deepLink, verifyState,
                   verifyError, isVerifying, verifying, ivars, mainVars>>

\* solana.signMessage returns: createDeepLink, lines 331-345 and 351-353
SignReturns ==
    /\ signing # JNull
    /\ LET nextSignature == Signed(signing.walletAddress.s,
                                   buildProofMessage(signing.nextTimestamp))
           redirectUri == buildRedirectUri("redirectBaseUrl", signing.walletAddress.s)
       IN /\ timestamp' = JNum(signing.nextTimestamp)
          /\ signature' = nextSignature
          /\ deepLink' = buildDeepLink(signing.walletAddress.s, nextSignature,
                                       signing.nextTimestamp, redirectUri,
                                       "proofPortalUrl")
    /\ isSigning' = FALSE
    /\ signing' = JNull
    /\ UNCHANGED <<walletAddress, signError, verifyState, verifyError, isVerifying,
                   verifying, now, ivars, mainVars>>

\* solana.signMessage throws: createDeepLink, lines 346-353
SignFails ==
    /\ signing # JNull
    /\ signError' = JStr("Signature failed.")
    /\ isSigning' = FALSE
    /\ signing' = JNull
    /\ UNCHANGED <<walletAddress, timestamp, signature, deepLink, verifyState,
                   verifyError, isVerifying, verifying, now, ivars, mainVars>>

\* "Check verification" is clicked (enabled when walletAddress &&
\* !isVerifying): handleVerify up to await verifyWallet (lines 363-371)
HandleVerify ==
    /\ Truthy(walletAddress)
    /\ ~isVerifying
    /\ isVerifying' = TRUE
    /\ verifyError' = JNull
    /\ verifying' = [walletAddress |-> walletAddress]
    /\ UNCHANGED <<walletAddress, timestamp, signature, deepLink, signError,
                   verifyState, isSigning, signing, now, ivars, mainVars>>

\* verifyWallet returns: handleVerify, lines 371-372 and 377-379
VerifyReturns ==
    /\ verifying # JNull
    /\ verifyState' = IF verifying.walletAddress.s \in VerifiedWallets
                      THEN "verified" ELSE "unverified"
    /\ isVerifying' = FALSE
    /\ verifying' = JNull
    /\ UNCHANGED <<walletAddress, timestamp, signature, deepLink, signError,
                   verifyError, isSigning, signing, now, ivars, mainVars>>

\* verifyWallet throws: handleVerify, lines 373-379
VerifyFails ==
    /\ verifying # JNull
    /\ verifyError' = JStr("Verification failed.")
    /\ isVerifying' = FALSE
    /\ verifying' = JNull
    /\ UNCHANGED <<walletAddress, timestamp, signature, deepLink, signError,
                   verifyState, isSigning, signing, now, ivars, mainVars>>

InitProof ==
    /\ ProofIdle
    /\ args = <<>>
    /\ MainIdle
    /\ InferIdle

NextProof ==
    \/ \E w \in {JNull} \cup {JStr(a) : a \in Wallets} : WalletChanges(w)
    \/ CreateDeepLinkNoProvider
    \/ CreateDeepLink
    \/ SignReturns
    \/ SignFails
    \/ HandleVerify
    \/ VerifyReturns
    \/ VerifyFails

SpecProof == InitProof /\ [][NextProof]_vars

-----------------------------------------------------------------------------
(* Properties of the inference engine (checked under SpecInfer).           *)

N == Len(samples)

\* the merged type of the samples i..k of the bucket
Fold(i, k) == mergeMultipleSamples(SubSeq(samples, i, k))

RECURSIVE Equiv(_, _)
\* a and b are the same type up to the order of union members and of object
\* keys (occurrence counts included)
Equiv(a, b) ==
    /\ a.kind = b.kind
    /\ IF a.kind = "primitive" THEN a.type = b.type
       ELSE IF a.kind = "array" THEN Equiv(a.elementType, b.elementType)
       ELSE IF a.kind = "object"
            THEN /\ Keys(a) = Keys(b)
                 /\ \A key \in Keys(a) :
                       /\ Get(a, key).occurrences = Get(b, key).occurrences
                       /\ Equiv(Get(a, key).type, Get(b, key).type)
       ELSE IF a.kind = "union"
            THEN /\ Len(a.types) = Len(b.types)
                 /\ \A i \in 1..Len(a.types) :
                       \E h \in 1..Len(b.types) : Equiv(a.types[i], b.types[h])
                 /\ \A h \in 1..Len(b.types) :
                       \E i \in 1..Len(a.types) : Equiv(a.types[i], b.types[h])
       ELSE TRUE

\* C1: mergeTypes is commutative: for the types A and B merged from the two
\* parts of any split of the bucket, mergeTypes(A, B) and mergeTypes(B, A) are
\* the same type (even when the order of union members and keys is ignored).
C1_MergeCommutative ==
    \A i \in 1..(N - 1) :
        Equiv(mergeTypes(Fold(1, i), Fold(i + 1, N)),
              mergeTypes(Fold(i + 1, N), Fold(1, i)))

Orderings(n) == {f \in [1..n -> 1..n] : \A i, h \in 1..n : f[i] = f[h] => i = h}

\* C2: folding the samples of a bucket with mergeTypes gives the same final
\* type for every permutation of the samples.
C2_FoldOrderIndependent ==
    \A f \in Orderings(N) :
        Equiv(mergeMultipleSamples([i \in 1..N |-> samples[f[i]]]),
              mergeMultipleSamples(samples))

RECURSIVE UnionInvariant(_)
\* at every depth of t: no union directly in a union, at most one object in a union
UnionInvariant(t) ==
    IF t.kind = "union"
    THEN /\ \A i \in 1..Len(t.types) : t.types[i].kind # "union"
         /\ Cardinality({i \in 1..Len(t.types) : t.types[i].kind = "object"}) <= 1
         /\ \A i \in 1..Len(t.types) : UnionInvariant(t.types[i])
    ELSE IF t.kind = "array" THEN UnionInvariant(t.elementType)
    ELSE IF t.kind = "object"
         THEN \A i \in 1..Len(t.fields) : UnionInvariant(t.fields[i].type)
    ELSE TRUE

RECURSIVE HasObjectInUnion(_)
\* some union inside t has an object member
HasObjectInUnion(t) ==
    IF t.kind = "union"
    THEN \E i \in 1..Len(t.types) :
            t.types[i].kind = "object" \/ HasObjectInUnion(t.types[i])
    ELSE IF t.kind = "array" THEN HasObjectInUnion(t.elementType)
    ELSE IF t.kind = "object"
         THEN \E i \in 1..Len(t.fields) : HasObjectInUnion(t.fields[i].type)
    ELSE FALSE

\* C3: every type inferType, mergeTypes or mergeMultipleSamples produces keeps
\* the union invariant at every depth: no union directly inside a union, and
\* at most one object member per union.
C3_UnionInvariant ==
    /\ \A i \in 1..N : UnionInvariant(inferType(samples[i]))
    /\ \A i \in 1..(N - 1) : UnionInvariant(mergeTypes(Fold(1, i), Fold(i + 1, N)))
    /\ \A i \in 1..(N - 1) : UnionInvariant(mergeTypes(Fold(i + 1, N), Fold(1, i)))
    /\ ipc = "generated" => UnionInvariant(merged)

\* three samples were merged and the schema has a union holding an object
C3_Witness ==
    /\ ipc = "generated"
    /\ N = 3
    /\ HasObjectInUnion(merged)
    /\ HasObjectInUnion(Fold(1, 2))
    /\ \E i \in 1..Len(samples[3].entries) : samples[3].entries[i].v.j = "object"

RECURSIVE Shapes(_)
\* what occurs in t, each with the path of field names and array steps to it
Shapes(t) ==
    IF t.kind = "null" THEN {<<"null">>}
    ELSE IF t.kind = "primitive" THEN {<<t.type>>}
    ELSE IF t.kind = "array"
         THEN {<<"[]">>} \cup {<<"[]">> \o p : p \in Shapes(t.elementType)}
    ELSE IF t.kind = "object"
         THEN {<<"{}">>} \cup
              UNION { {<<t.fields[i].key>> \o p : p \in Shapes(t.fields[i].type)} :
                      i \in 1..Len(t.fields) }
    ELSE UNION {Shapes(t.types[i]) : i \in 1..Len(t.types)}

\* C4: the merged type covers both operands: every primitive kind, null, array
\* element type and field name of a sample, at any depth, occurs in the merged
\* schema of its bucket.
C4_MergeCovers ==
    /\ \A i \in 1..(N - 1) :
          LET a == Fold(1, i)
              b == Fold(i + 1, N)
          IN Shapes(a) \cup Shapes(b) \subseteq Shapes(mergeTypes(a, b))
    /\ ipc = "generated" =>
          \A i \in 1..N : Shapes(inferType(samples[i])) \subseteq Shapes(merged)

TopKeys == {"a", "b"}

HasKey(sample, key) == \E i \in 1..Len(sample.entries) : sample.entries[i].k = key

\* the number of samples of the bucket that have the top-level field
Present(key) == Cardinality({i \in 1..N : HasKey(samples[i], key)})

\* where the top-level field line of key starts in the rendered definition
TopLine(key) ==
    {i \in 1..(Len(rendered) - 3) :
        rendered[i] = "\n" /\ rendered[i + 1] = "  " /\ rendered[i + 2] = key}

\* C5: in a bucket of N >= 2 object samples a top-level field present in k of
\* them is rendered once, with the optional marker iff k < N and without it
\* iff k = N.
C5_TopLevelOptional ==
    (ipc = "generated" /\ N >= 2) =>
        \A key \in TopKeys :
            IF Present(key) = 0 THEN TopLine(key) = {}
            ELSE /\ Cardinality(TopLine(key)) = 1
                 /\ \A i \in TopLine(key) :
                       /\ rendered[i + 3] = "?" <=> Present(key) < N
                       /\ rendered[i + 3] = "" <=> Present(key) = N

\* {"a":1,"b":"x"} and {"a":2}: a required number, b optional string
C5_Witness ==
    /\ ipc = "generated"
    /\ samples = << JObj(<<KV("a", JNum(1)), KV("b", JStr("x"))>>),
                    JObj(<<KV("a", JNum(2))>>) >>
    /\ rendered = << "{", "\n", "  ", "a", "", ":", "number", ";",
                     "\n", "  ", "b", "?", ":", "string", ";", "\n", "}" >>

\* C6: the definition rendered for a bucket of exactly one sample has no
\* optional marker, at any depth.
C6_SingleSampleNoOptional ==
    (ipc = "generated" /\ N = 1) =>
        \A i \in 1..Len(rendered) : rendered[i] # "?"

\* one sample whose field is an array of objects has been rendered
C6_Witness ==
    /\ ipc = "generated"
    /\ samples = << JObj(<<KV("a", JArr(<<ObjP, ObjP2>>))>>) >>
    /\ \E i \in 1..Len(rendered) : rendered[i] = "p"

RECURSIVE OccurrencesWithin(_, _)
\* every FieldInfo of t, at every depth, has 1 <= occurrences <= n
OccurrencesWithin(t, n) ==
    IF t.kind = "union"
    THEN \A i \in 1..Len(t.types) : OccurrencesWithin(t.types[i], n)
    ELSE IF t.kind = "array" THEN OccurrencesWithin(t.elementType, n)
    ELSE IF t.kind = "object"
         THEN \A i \in 1..Len(t.fields) :
                 /\ 1 <= t.fields[i].occurrences
                 /\ t.fields[i].occurrences <= n
                 /\ OccurrencesWithin(t.fields[i].type, n)
    ELSE TRUE

\* C7: in the merged schema of a bucket of N samples every FieldInfo, at
\* every depth, has 1 <= occurrences <= N.
C7_OccurrencesBounded ==
    ipc = "generated" => OccurrencesWithin(merged, N)

-----------------------------------------------------------------------------
(* Properties of the crawl loop (checked under Spec).                      *)

\* the crawl loop has ended
LoopEnded == stop # "none"

\* the quiet-window condition of the early stop, without the type count
QuietWindow ==
    /\ checked >= MIN_EVENTS_BEFORE_EARLY_STOP
    /\ checked - lastNewTypeAt >= EVENTS_AFTER_LAST_NEW_TYPE

\* C8 as stated: with hard cap 500, minimum 100 and quiet window 100, a crawl
\* over at least 500 events whose last new type was found at event 50 does not
\* stop before 500 events have been checked.
C8_RunsToHardCap ==
    (Len(uniqueEvents) >= 500 /\ lastNewTypeAt = 50 /\ LoopEnded) => checked >= 500

\* C8 as amended: such a crawl does not stop before 150 events have been
\* checked, and stops there, through the early stop (50 + quiet window).
C8_StopsAtQuietWindow ==
    (Len(uniqueEvents) >= 500 /\ lastNewTypeAt = 50) =>
        IF LoopEnded
        THEN checked = 50 + EVENTS_AFTER_LAST_NEW_TYPE /\ stop = "early"
        ELSE checked < 50 + EVENTS_AFTER_LAST_NEW_TYPE

\* a crawl over more than 500 events, last new type at event 50, has ended
C8_Witness ==
    /\ Len(uniqueEvents) >= 500
    /\ lastNewTypeAt = 50
    /\ LoopEnded
    /\ checked = 150

\* C9 as stated: whenever checked >= MIN_EVENTS_BEFORE_EARLY_STOP and
\* checked - lastNewTypeAt >= EVENTS_AFTER_LAST_NEW_TYPE hold after an event,
\* no further event is fetched, whatever the number of types found (zero too).
C9_QuietWindowStops ==
    [][QuietWindow => (requested' = requested /\ checked' = checked)]_vars

\* C9 as amended: the same, provided at least one type has been discovered.
C9_QuietWindowStopsWithTypes ==
    [][(Len(typeMap) > 0 /\ QuietWindow) =>
          (requested' = requested /\ checked' = checked /\ stop \in {"early", "hardcap"})]_vars

\* the early stop has ended a crawl that had events left
C9_Witness ==
    /\ Len(typeMap) > 0
    /\ QuietWindow
    /\ stop = "early"
    /\ checked < Len(uniqueEvents)
    /\ pc = "exit"

\* C10: checked never exceeds MAX_EVENTS_TO_CHECK, no more live-data requests
\* than that are issued, and once checked reaches MAX_EVENTS_TO_CHECK the loop
\* has ended through the hard cap, whether or not the early stop holds.
C10_HardCap ==
    /\ checked <= MAX_EVENTS_TO_CHECK
    /\ Len(requested) <= MAX_EVENTS_TO_CHECK
    /\ Len(requested) = checked
    /\ checked >= MAX_EVENTS_TO_CHECK => (stop = "hardcap" /\ pc # "step4")

\* the hard cap ended a crawl with events left and the early stop not holding
C10_Witness ==
    /\ checked = MAX_EVENTS_TO_CHECK
    /\ stop = "hardcap"
    /\ Len(uniqueEvents) > MAX_EVENTS_TO_CHECK
    /\ Len(typeMap) > 0
    /\ ~QuietWindow
    /\ pc = "exit"

-----------------------------------------------------------------------------
(* Properties of main (checked under Spec).                                *)

\* this step runs one iteration of the crawl loop: a live-data request is issued
FetchStep == requested' # requested

\* the crawl loop's two stop conditions, on the values after an event
StopCondition(nowChecked, size, lastNew) ==
    \/ nowChecked >= MAX_EVENTS_TO_CHECK
    \/ /\ size > 0
       /\ nowChecked >= MIN_EVENTS_BEFORE_EARLY_STOP
       /\ nowChecked - lastNew >= EVENTS_AFTER_LAST_NEW_TYPE

\* C11: a failed live-data fetch for one event never aborts the crawl and is
\* treated as zero entries: found, lastNewTypeAt and every bucket are left
\* unchanged, checked is incremented by exactly one, the run does not exit, and
\* the loop goes on to the next event unless a stop condition holds.
C11_FailedFetchIsNoEntries ==
    [][(FetchStep /\ fetched'.threw) =>
          /\ found' = found
          /\ lastNewTypeAt' = lastNewTypeAt
          /\ typeMap' = typeMap
          /\ checked' = checked + 1
          /\ exitCode' = -1
          /\ written' = written
          /\ IF StopCondition(checked', Len(typeMap'), lastNewTypeAt')
             THEN pc' = "after"
             ELSE pc' = "step4" /\ stop' = "none"]_vars

\* a fetch has failed with buckets filled by earlier events, and the loop goes on
C11_Witness ==
    /\ fetched.threw
    /\ Len(typeMap) > 0
    /\ found > 0
    /\ pc = "step4"
    /\ checked < Len(uniqueEvents)

\* this step is a mandatory planning call throwing: getTagsByCategories,
\* getSeriesByCategory, getSeriesByTags or getEvents
PlanningCallFails ==
    \/ Step1Fail
    \/ Step2CategoryFail
    \/ Step2TagsFail
    \/ Step3BatchFail

\* C12: a failure of any mandatory planning call aborts the run with exit code
\* 1: the run ends at that step, planning is the only origin of exit code 1,
\* and with exit code 1 no live-data request has been issued, no artifact has
\* been written, and no step follows.
C12_PlanningFailureAborts ==
    /\ [][PlanningCallFails => (pc' = "exit" /\ exitCode' = 1)]_vars
    /\ [][exitCode' = 1 => pc \in {"step1", "step2", "step3"}]_vars
    /\ [][pc # "exit"]_vars
    /\ [](exitCode = 1 =>
            (pc = "exit" /\ requested = <<>> /\ checked = 0 /\ written = <<>>))

\* the event listing failed on its second batch, with events already known
C12_Witness ==
    /\ exitCode = 1
    /\ pc = "exit"
    /\ batchStart > 0
    /\ batchStart < Len(seriesTickers)
    /\ Len(uniqueEvents) > 0

\* C13: a crawl that ends with zero discovered types terminates with exit code
\* 0, never with exit code 1, and without creating any output directory or
\* file: with the loop over and typeMap empty nothing is ever written, the exit
\* code is never 1, and the only step the run takes is the exit with code 0.
C13_ZeroTypesExitZero ==
    /\ []((LoopEnded /\ Len(typeMap) = 0) =>
            /\ written = <<>>
            /\ exitCode # 1
            /\ pc \in {"after", "exit"}
            /\ pc = "exit" => exitCode = 0)
    /\ [][(pc = "after" /\ Len(typeMap) = 0) =>
            (pc' = "exit" /\ exitCode' = 0 /\ written' = <<>>)]_vars

\* a crawl whose last event returned entries, all of them discarded, has exited
C13_Witness ==
    /\ pc = "exit"
    /\ exitCode = 0
    /\ Len(typeMap) = 0
    /\ checked = Len(uniqueEvents)
    /\ ~fetched.threw
    /\ Len(fetched.liveDatas) > 0
    /\ written = <<>>

\* a crawl without any event has exited
C13_WitnessNoEvents ==
    /\ pc = "exit"
    /\ exitCode = 0
    /\ uniqueEvents = <<>>
    /\ checked = 0

\* a crawl whose fetches failed, the last included, has exited
C13_WitnessAllFailed ==
    /\ pc = "exit"
    /\ exitCode = 0
    /\ Len(typeMap) = 0
    /\ found = 0
    /\ checked > 0
    /\ fetched.threw

\* an entry the collector keeps: type and details both present and truthy
Valid(ld) == Truthy(ld.type) /\ Truthy(ld.details)

\* the number of valid entries of a response
ValidCount(liveDatas) == Len(SelectSeq(liveDatas, Valid))

\* the samples stored in all buckets
StoredSamples == Len(Concat([i \in 1..Len(typeMap) |-> typeMap[i].samples]))

\* the collector's state, as processEntry takes it
CrawlState == [typeMap |-> typeMap, found |-> found, lastNewTypeAt |-> lastNewTypeAt]

\* C14: no bucket ever holds more than MAX_SAMPLES_PER_TYPE samples (nor
\* attribution ids); a valid entry arriving for a bucket already at the cap
\* increments found and leaves every bucket unchanged; each event adds to found
\* exactly the number of valid entries of its response, so found is the number
\* of valid entries seen; and found is at least the number of stored samples.
C14_SampleCap ==
    /\ [](\A i \in 1..Len(typeMap) :
             /\ Len(typeMap[i].samples) <= MAX_SAMPLES_PER_TYPE
             /\ Len(typeMap[i].eventTickers) = Len(typeMap[i].samples))
    /\ [](\A ld \in EntryValues :
             (/\ Valid(ld)
              /\ \E i \in 1..Len(typeMap) :
                    /\ typeMap[i].name = ld.type.s
                    /\ Len(typeMap[i].samples) = MAX_SAMPLES_PER_TYPE)
             => LET after == processEntry(CrawlState, ld, 0, checked + 1)
                IN /\ after.found = found + 1
                   /\ after.typeMap = typeMap)
    /\ [][FetchStep => found' = found + ValidCount(fetched'.liveDatas)]_vars
    /\ [](found >= StoredSamples)

\* a response held more valid entries of one type than a bucket stores: the
\* bucket is at the cap and found exceeds the stored samples
C14_Witness ==
    /\ \E i \in 1..Len(typeMap) : Len(typeMap[i].samples) = MAX_SAMPLES_PER_TYPE
    /\ ValidCount(fetched.liveDatas) > MAX_SAMPLES_PER_TYPE
    /\ found > StoredSamples

\* a value that is absent or falsy in JavaScript
Falsy(v) ==
    v \in {JNull, [j |-> "undefined"], JStr(""), JNum(0), JBool(FALSE)}

\* the samples of the bucket of a type name, <<>> if there is no such bucket
SamplesOf(map, name) ==
    IF Has(map, name) THEN map[IndexOf(map, name)].samples ELSE <<>>

\* processing ld in the current state discards it exactly when its type or its
\* details is falsy: nothing changes then, and found changes otherwise
DiscardedIffFalsy(ld) ==
    LET after == processEntry(CrawlState, ld, 0, checked + 1)
    IN /\ (Falsy(ld.type) \/ Falsy(ld.details)) => after = CrawlState
       /\ ~(Falsy(ld.type) \/ Falsy(ld.details)) => after.found = found + 1

\* processing ld in the current state stores its details as the last sample of
\* its type's bucket
Stored(ld) ==
    LET after == processEntry(CrawlState, ld, 0, checked + 1)
    IN SamplesOf(after.typeMap, ld.type.s)
          = Append(SamplesOf(typeMap, ld.type.s), ld.details)

\* C15 as stated: an entry is discarded (no counter changes, no bucket created
\* or extended) exactly when its type or its details is absent/falsy; an entry
\* whose details is {} is not discarded but counted as a hit and stored as a
\* sample of its type's bucket, in every state of the crawl.
C15_EmptyDetailsStored ==
    \A ld \in EntryValues :
        /\ DiscardedIffFalsy(ld)
        /\ (~Falsy(ld.type) /\ ld.details = JObj(<<>>)) => Stored(ld)

\* C15 as amended: the same, the entry with details {} being stored while its
\* type's bucket holds fewer than MAX_SAMPLES_PER_TYPE samples, and counted as a
\* hit without being stored once the bucket is at the cap.
C15_EmptyDetailsStoredBelowCap ==
    \A ld \in EntryValues :
        /\ DiscardedIffFalsy(ld)
        /\ (~Falsy(ld.type) /\ ld.details = JObj(<<>>)) =>
              IF Len(SamplesOf(typeMap, ld.type.s)) < MAX_SAMPLES_PER_TYPE
              THEN Stored(ld)
              ELSE processEntry(CrawlState, ld, 0, checked + 1)
                      = [CrawlState EXCEPT !.found = found + 1]

\* a response with an entry lacking details and an entry with details {} has
\* been processed: the first was discarded, the second counted and stored
C15_Witness ==
    /\ fetched = Returned(<<Entry(JStr("golf_round"), JNull),
                            Entry(JStr("basketball_game"), JObj(<<>>))>>)
    /\ found = 1
    /\ typeMap = <<TypeEntry("basketball_game", <<JObj(<<>>)>>, <<1>>)>>

\* step 1 has listed the categories and resolved the targets
Resolved == allCategories # <<>>

IsCategory(token) == Contains(allCategories, token)
IsTag(token) == Contains(allTags, token)

\* C16: with --all the targets are every known category and the filter tokens
\* are ignored; otherwise each token is a category if it is a known category,
\* else a tag if it is a known tag, else skipped with exactly one warning, the
\* run continuing; with no token the target is the default category. For the
\* tokens Basketball, NotARealTag (Basketball a tag only): one warning,
\* tags = [Basketball], categories = [].
C16_TargetResolution ==
    /\ [](Resolved =>
            IF crawlAll
            THEN /\ targetCategories = allCategories
                 /\ targetTags = <<>>
                 /\ warnings = <<>>
            ELSE IF requestedFilters # <<>>
                 THEN /\ targetCategories = SelectSeq(requestedFilters, IsCategory)
                      /\ targetTags =
                            SelectSeq(requestedFilters,
                                      LAMBDA t : ~IsCategory(t) /\ IsTag(t))
                      /\ warnings =
                            SelectSeq(requestedFilters,
                                      LAMBDA t : ~IsCategory(t) /\ ~IsTag(t))
                 ELSE /\ targetCategories = <<"Sports">>
                      /\ targetTags = <<>>
                      /\ warnings = <<>>)
    /\ []((Resolved /\ args = <<"Basketball", "NotARealTag">>) =>
            /\ IsTag("Basketball") /\ ~IsCategory("Basketball")
            /\ warnings = <<"NotARealTag">>
            /\ targetTags = <<"Basketball">>
            /\ targetCategories = <<>>)
    /\ [][(pc = "step1" /\ Resolved') => (pc' = "step2" /\ exitCode' = -1)]_vars

\* the run for Basketball, NotARealTag has warned once, crawled the events of
\* the Basketball tag only and written its artifacts
C16_Witness ==
    /\ args = <<"Basketball", "NotARealTag">>
    /\ warnings = <<"NotARealTag">>
    /\ requested = <<1, 2, 3>>
    /\ pc = "exit"
    /\ exitCode = 0
    /\ Len(written) > 0

\* a token that is a category and a tag has been resolved, with a tag token
C16_WitnessCategoryFirst ==
    /\ args = <<"Golf", "Sports">>
    /\ IsTag("Sports")
    /\ targetCategories = <<"Sports">>
    /\ targetTags = <<"Golf">>

\* the events the first n batches of step 3 return, in the order returned
BatchEvents(n) ==
    Concat([b \in 1..n |->
              LET first == (b - 1) * BATCH_SIZE + 1
                  last == IF b * BATCH_SIZE < Len(seriesTickers)
                          THEN b * BATCH_SIZE ELSE Len(seriesTickers)
              IN EventsOfBatch(SubSeq(seriesTickers, first, last), EVENTS_PER_BATCH)])

\* the first occurrence of each element of s, in the order of s
FirstOccurrences(s) ==
    SelectIdx(s, [i \in 1..Len(s) |-> \A h \in 1..(i - 1) : s[h] # s[i]])

\* the batches step 3 has fetched
BatchesDone ==
    IF batchStart >= Len(seriesTickers)
    THEN (Len(seriesTickers) + BATCH_SIZE - 1) \div BATCH_SIZE
    ELSE batchStart \div BATCH_SIZE

NoDuplicates(s) == Cardinality({s[i] : i \in 1..Len(s)}) = Len(s)

\* C17: the events are deduplicated by ticker, keeping the first occurrence in
\* the order the batches return them (uniqueEvents is that list throughout step
\* 3 and does not change afterwards), and the live-data requests issued are, in
\* order, the first events of that list, one request per distinct ticker.
C17_OneRequestPerEvent ==
    /\ [](pc = "step3" =>
            /\ uniqueEvents = FirstOccurrences(BatchEvents(BatchesDone))
            /\ NoDuplicates(uniqueEvents))
    /\ [][pc # "step3" => uniqueEvents' = uniqueEvents]_vars
    /\ [](/\ Len(requested) <= Len(uniqueEvents)
          /\ requested = SubSeq(uniqueEvents, 1, Len(requested))
          /\ NoDuplicates(requested))
    /\ [][requested' = requested
          \/ requested' = Append(requested, uniqueEvents[Len(requested) + 1])]_vars

\* the batches returned an event twice, and a live-data request has been issued
\* for each unique event
C17_Witness ==
    /\ LoopEnded
    /\ Len(BatchEvents(BatchesDone)) > Len(uniqueEvents)
    /\ Len(uniqueEvents) > 1
    /\ requested = uniqueEvents

\* a is a prefix of b
IsPrefix(a, b) == Len(a) <= Len(b) /\ SubSeq(b, 1, Len(a)) = a

\* the type names of map, in insertion order
Names(map) == [i \in 1..Len(map) |-> map[i].name]

\* the type names a response brings that map has no bucket for: those of its
\* valid entries, first occurrences, in order
NewNames(map, liveDatas) ==
    LET valid == SelectSeq(liveDatas, Valid)
        names == [i \in 1..Len(valid) |-> valid[i].type.s]
    IN FirstOccurrences(SelectSeq(names, LAMBDA name : ~Has(map, name)))

\* C18: buckets only grow. In every step each existing bucket keeps its place
\* and its name, and its samples and attribution ids before the step are a
\* prefix of those after it; the buckets a step creates are exactly one for each
\* not-yet-seen type name of a valid entry of the response just processed; no
\* bucket changes outside the crawl loop; and while the loop has not ended
\* nothing is written: the merged schemas are computed by generateTypesFile,
\* which runs only after the loop, on buckets that no longer change.
C18_BucketsOnlyGrow ==
    /\ [][/\ Len(typeMap') >= Len(typeMap)
          /\ \A i \in 1..Len(typeMap) :
                /\ typeMap'[i].name = typeMap[i].name
                /\ IsPrefix(typeMap[i].samples, typeMap'[i].samples)
                /\ IsPrefix(typeMap[i].eventTickers, typeMap'[i].eventTickers)
          /\ IF FetchStep
             THEN Names(typeMap') = Names(typeMap) \o NewNames(typeMap, fetched'.liveDatas)
             ELSE typeMap' = typeMap]_vars
    /\ [](~LoopEnded => written = <<>>)
    /\ [][written' # written => (LoopEnded /\ typeMap' = typeMap)]_vars

\* a second bucket was created by a later event than the first, which has
\* grown over two events
C18_Witness ==
    /\ Len(typeMap) = 2
    /\ typeMap[1].eventTickers[1] = 1
    /\ typeMap[2].eventTickers[1] = 51
    /\ \E i \in 2..Len(typeMap[1].eventTickers) : typeMap[1].eventTickers[i] = 51
    /\ ~LoopEnded

\* the type-definitions document, once written
TypesFile == written[3].content

TypesWritten == Len(written) >= 3

\* C19: the type-definitions document holds, for every bucket and for nothing
\* else, one type definition, one union member {type: "<name>"; details:
\* <DefinitionName>; milestone_id: string} naming that definition, and one
\* narrowing predicate comparing the tag with the literal type name, the three
\* lists in bucket discovery order; it is the third thing written, after the
\* two directories.
C19_TypesDocument ==
    TypesWritten =>
        /\ written[3].file = "types"
        /\ \A k \in 4..Len(written) : written[k].file # "types"
        /\ Len(TypesFile.interfaces) = Len(typeMap)
        /\ Len(TypesFile.union) = Len(typeMap)
        /\ Len(TypesFile.guards) = Len(typeMap)
        /\ \A i \in 1..Len(typeMap) :
              /\ TypesFile.interfaces[i].typeName = typeMap[i].name
              /\ TypesFile.interfaces[i].sampleCount = Len(typeMap[i].samples)
              /\ TypesFile.union[i] =
                    [type |-> typeMap[i].name,
                     details |-> TypesFile.interfaces[i].interfaceName,
                     milestone_id |-> "string"]
              /\ TypesFile.guards[i].literal = typeMap[i].name
        /\ \A i, k \in 1..Len(typeMap) : typeMap[i].name = typeMap[k].name => i = k

\* the document of a crawl that discovered golf_round, then basketball_game
C19_Witness ==
    /\ TypesWritten
    /\ Names(typeMap) = <<"golf_round", "basketball_game">>
    /\ TypesFile.union =
          << [type |-> "golf_round", details |-> "GolfRoundDetails",
              milestone_id |-> "string"],
             [type |-> "basketball_game", details |-> "BasketballGameDetails",
              milestone_id |-> "string"] >>
    /\ TypesFile.guards =
          << [guardName |-> "isGolfRound", literal |-> "golf_round"],
             [guardName |-> "isBasketballGame", literal |-> "basketball_game"] >>

\* the details of the first valid entry of a type in a response
FirstDetails(liveDatas, name) ==
    LET ofType == SelectSeq(liveDatas, LAMBDA ld : Valid(ld) /\ ld.type.s = name)
    IN ofType[1].details

\* the documents written for the type name, of one kind
Documents(kind, name) ==
    SelectSeq(written, LAMBDA w : w.file = kind /\ w.type = name)

\* the run has written all its artifacts and returned
Completed == pc = "exit" /\ exitCode = 0 /\ Len(typeMap) > 0

\* C20: for every bucket exactly one example and one template are written,
\* in bucket order after the types document; the example's details is the
\* bucket's first sample and the template's is toTemplate of that sample; and
\* the first sample of a bucket is the details of the first valid entry of its
\* type in the response that created the bucket, and never changes.
C20_ExampleAndTemplate ==
    /\ [](\A i \in 1..Len(typeMap) :
             /\ Len(Documents("example", typeMap[i].name)) <= 1
             /\ Len(Documents("template", typeMap[i].name)) <= 1
             /\ Len(written) >= 3 + 2 * i =>
                   /\ written[2 + 2 * i] =
                         [file |-> "example", type |-> typeMap[i].name,
                          content |-> typeMap[i].samples[1]]
                   /\ written[3 + 2 * i] =
                         [file |-> "template", type |-> typeMap[i].name,
                          content |-> toTemplate(typeMap[i].samples[1])])
    /\ [](Completed => Len(written) = 3 + 2 * Len(typeMap))
    /\ [][\A i \in 1..Len(typeMap') :
             IF i <= Len(typeMap)
             THEN typeMap'[i].samples[1] = typeMap[i].samples[1]
             ELSE typeMap'[i].samples[1]
                     = FirstDetails(fetched'.liveDatas, typeMap'[i].name)]_vars

\* a completed run: the bucket's first sample {a: 1} is the example and
\* {a: "<number>"} the template, later samples {} of the bucket being ignored
C20_Witness ==
    /\ Completed
    /\ typeMap[1].name = "basketball_game"
    /\ typeMap[1].samples[1] = JObj(<<KV("a", JNum(1))>>)
    /\ Len(typeMap[1].samples) > 1
    /\ typeMap[1].samples[Len(typeMap[1].samples)] = JObj(<<>>)
    /\ Documents("example", "basketball_game") =
          << [file |-> "example", type |-> "basketball_game",
              content |-> JObj(<<KV("a", JNum(1))>>)] >>
    /\ Documents("template", "basketball_game") =
          << [file |-> "template", type |-> "basketball_game",
              content |-> JObj(<<KV("a", JStr("<number>"))>>)] >>

-----------------------------------------------------------------------------
(* Properties of toTemplate (checked under SpecInfer).                     *)

Placeholders ==
    { JStr("<string>"), JStr("<number>"), JStr("<boolean>"), JStr("<null>"),
      JStr("<undefined>"), JStr("<unknown>") }

RECURSIVE WellTemplated(_, _)
\* out is a template of in: a placeholder for a leaf, [] for [], a one-element
\* array holding a template of the first element for a longer array, and for an
\* object an object with exactly the same keys, each holding a template of the
\* input's value
WellTemplated(in, out) ==
    IF in.j = "array"
    THEN /\ out.j = "array"
         /\ IF in.items = <<>> THEN out.items = <<>>
            ELSE /\ Len(out.items) = 1
                 /\ WellTemplated(in.items[1], out.items[1])
    ELSE IF in.j = "object"
    THEN /\ out.j = "object"
         /\ Len(out.entries) = Len(in.entries)
         /\ {out.entries[i].k : i \in 1..Len(out.entries)}
               = {in.entries[i].k : i \in 1..Len(in.entries)}
         /\ \A i \in 1..Len(in.entries) :
               \E h \in 1..Len(out.entries) :
                  /\ out.entries[h].k = in.entries[i].k
                  /\ WellTemplated(in.entries[i].v, out.entries[h].v)
    ELSE out \in Placeholders

\* C21: toTemplate preserves structure and replaces content: for every JSON
\* value, each leaf of the result is a placeholder string, each object keeps
\* exactly its input keys, a non-empty array becomes a one-element array holding
\* the template of its first element, and an empty array stays empty.
C21_TemplateStructure ==
    ipc = "templated" => WellTemplated(written[1].content, written[2].content)

-----------------------------------------------------------------------------
(* Further properties of the inference engine (checked under SpecInfer).   *)

\* v is a number, a string or a boolean
IsPrimitive(v) == v.j \in {"number", "string", "boolean"}

\* every sample of the bucket is {"a": primitive}
PrimitiveBucket ==
    \A i \in 1..N :
        /\ Len(samples[i].entries) = 1
        /\ samples[i].entries[1].k = "a"
        /\ IsPrimitive(samples[i].entries[1].v)

\* the primitive kinds of field a, each once, in the order first seen
KindsSeen == FirstOccurrences([i \in 1..N |-> samples[i].entries[1].v.j])

\* the kinds with the alternation operator between them
Alternation(kinds) ==
    [i \in 1..(2 * Len(kinds) - 1) |->
        IF i % 2 = 1 THEN kinds[(i + 1) \div 2] ELSE "|"]

\* C22: when the field a of the samples has different primitive kinds, its
\* merged type is the union of the kinds in first-seen order, rendered with
\* the alternation operator: {"a":1} and {"a":"s"}, in that order, give
\* a: number | string (and kinds seen again add nothing).
C22_PrimitiveUnion ==
    (ipc = "generated" /\ N >= 2 /\ PrimitiveBucket) =>
        /\ merged = TObj(<<FieldInfo("a",
                                     IF Len(KindsSeen) = 1 THEN TPrim(KindsSeen[1])
                                     ELSE TUnion([i \in 1..Len(KindsSeen) |->
                                                     TPrim(KindsSeen[i])]),
                                     N)>>)
        /\ rendered = <<"{", "\n", "  ", "a", "", ":">> \o Alternation(KindsSeen)
                         \o <<";", "\n", "}">>

\* the samples {"a":1} and {"a":"s"} have been merged and rendered
C22_Witness ==
    /\ ipc = "generated"
    /\ samples = << JObj(<<KV("a", JNum(1))>>), JObj(<<KV("a", JStr("s"))>>) >>
    /\ rendered = << "{", "\n", "  ", "a", "", ":", "number", "|", "string", ";",
                     "\n", "}" >>

\* the same kinds in the other order, a kind seen again
C22_WitnessStringFirst ==
    /\ ipc = "generated"
    /\ samples = << JObj(<<KV("a", JStr("s"))>>), JObj(<<KV("a", JNum(1))>>),
                    JObj(<<KV("a", JNum(2))>>) >>
    /\ rendered = << "{", "\n", "  ", "a", "", ":", "string", "|", "number", ";",
                     "\n", "}" >>

\* every sample of the bucket has the single field a
SingleFieldBucket ==
    \A i \in 1..N : Len(samples[i].entries) = 1 /\ samples[i].entries[1].k = "a"

\* the inferred type of field a in sample i
FieldTypeOf(i) == inferType(samples[i].entries[1].v)

\* the merged type of field a over the samples 1..k
FieldTypeUpTo(k) ==
    reduceTypes(FieldTypeOf(1), [i \in 1..(k - 1) |-> FieldTypeOf(i + 1)])

\* the Object-kind members of a type, the type itself if it is an object
ObjectMembers(t) == SelectSeq(flattenUnion(t), LAMBDA m : m.kind = "object")

\* mergeTypes(a, b) takes its last branch, the one building a union
BuildsUnion(a, b) ==
    /\ ~(a.kind = "null" /\ b.kind = "null")
    /\ ~(a.kind = "primitive" /\ b.kind = "primitive" /\ a.type = b.type)
    /\ ~(a.kind = "array" /\ b.kind = "array")
    /\ ~(a.kind = "object" /\ b.kind = "object")

\* C23: when mergeTypes builds a union from operands that together contain
\* more than one Object-kind member, the result has a single Object member, and
\* it carries the keys of all of them. Checked on every merge of the fold of
\* field a: the type merged so far with the type of the next sample.
C23_ObjectsConsolidated ==
    (ipc = "generated" /\ SingleFieldBucket) =>
        \A k \in 1..(N - 1) :
            LET a == FieldTypeUpTo(k)
                b == FieldTypeOf(k + 1)
                operands == ObjectMembers(a) \o ObjectMembers(b)
                result == ObjectMembers(mergeTypes(a, b))
            IN (BuildsUnion(a, b) /\ Len(operands) > 1) =>
                  /\ Len(result) = 1
                  /\ \A i \in 1..Len(operands) : Keys(operands[i]) \subseteq Keys(result[1])

\* the objects at the position of field a in sample i: the value of a if it
\* is an object, its object elements if it is an array
ObjectsAt(i) ==
    LET v == samples[i].entries[1].v
    IN IF v.j = "object" THEN <<v>>
       ELSE IF v.j = "array" THEN SelectSeq(v.items, LAMBDA x : x.j = "object")
       ELSE <<>>

\* sample i has the nested field key in some object, in every object, at the
\* position of a
NestedIn(i, key) ==
    \E h \in 1..Len(ObjectsAt(i)) : HasKey(ObjectsAt(i)[h], key)
NestedInAll(i, key) ==
    /\ ObjectsAt(i) # <<>>
    /\ \A h \in 1..Len(ObjectsAt(i)) : HasKey(ObjectsAt(i)[h], key)

\* where the line of the nested field key starts in the rendered definition
NestedLine(key) ==
    {i \in 1..(Len(rendered) - 4) :
        /\ rendered[i] = "\n"
        /\ rendered[i + 1] = "  "
        /\ rendered[i + 2] = "  "
        /\ rendered[i + 3] = key}

\* C24, first half: in a bucket of N >= 2 samples a nested field (of the
\* object a, or of the objects of the array a) present in fewer than N of the
\* samples is rendered optional.
C24_NestedOptional ==
    (ipc = "generated" /\ N >= 2 /\ SingleFieldBucket) =>
        \A key \in {"p", "q"} :
            Cardinality({i \in 1..N : NestedIn(i, key)}) < N =>
                \A i \in NestedLine(key) : rendered[i + 4] = "?"

\* C24, second half: a nested field present in all N samples, in every object
\* at that position, is rendered required.
C24_NestedRequired ==
    (ipc = "generated" /\ N >= 2 /\ SingleFieldBucket) =>
        \A key \in {"p", "q"} :
            (\A i \in 1..N : NestedInAll(i, key)) =>
                /\ NestedLine(key) # {}
                /\ \A i \in NestedLine(key) : rendered[i + 4] = ""

\* C24: the optionality rule holds for nested fields, including fields of
\* objects that are array elements: with N >= 2 samples a nested field present
\* in fewer than N samples is rendered optional and one present in all N
\* samples, in every object at that position, is rendered required.
C24_NestedOptionality == C24_NestedOptional /\ C24_NestedRequired

-----------------------------------------------------------------------------
(* Further properties of the crawl loop (checked under Spec).              *)

\* the 1-based position of an event in the crawl order
PositionOf(ticker) == CHOOSE i \in 1..Len(uniqueEvents) : uniqueEvents[i] = ticker

\* the position of the event that yielded the most recent new type: the event
\* the first sample of the last bucket came from
LastDiscovery == PositionOf(typeMap[Len(typeMap)].eventTickers[1])

\* C25: whenever the crawl has stopped through the early-stop branch, at
\* least one type has been discovered, at least MIN_EVENTS_BEFORE_EARLY_STOP
\* events have been checked, and at least EVENTS_AFTER_LAST_NEW_TYPE events have
\* been checked after the event that yielded the most recent new type, the
\* event at which the loop stops being one of them (it creates no bucket).
C25_EarlyStopAfterQuietEvents ==
    /\ [](stop = "early" =>
            /\ Len(typeMap) > 0
            /\ checked >= MIN_EVENTS_BEFORE_EARLY_STOP
            /\ checked - LastDiscovery >= EVENTS_AFTER_LAST_NEW_TYPE)
    /\ [][(stop = "none" /\ stop' = "early") =>
            (FetchStep /\ Len(typeMap') = Len(typeMap))]_vars

\* the early stop has fired 100 events after the second type was discovered
C25_Witness ==
    /\ stop = "early"
    /\ Len(typeMap) = 2
    /\ LastDiscovery = 50
    /\ checked = LastDiscovery + EVENTS_AFTER_LAST_NEW_TYPE
    /\ pc = "after"

\* the smaller of two numbers
Min(a, b) == IF a < b THEN a ELSE b

\* C26: provided every request eventually returns or fails, the run always
\* terminates: the process reaches exit; the crawl loop checks at most
\* min(number of unique events, MAX_EVENTS_TO_CHECK) events and ends by event
\* exhaustion, hard cap or early stop; and the final checked count is the
\* number of events whose live data was requested.
C26_Terminates ==
    /\ <>(pc = "exit")
    /\ [](pc = "exit" => exitCode \in {0, 1})
    /\ [](pc \in {"step4", "after", "write"} =>
            checked <= Min(Len(uniqueEvents), MAX_EVENTS_TO_CHECK))
    /\ []((stop = "exhausted" => checked = Len(uniqueEvents))
          /\ (stop = "hardcap" => checked = MAX_EVENTS_TO_CHECK)
          /\ (pc \in {"after", "write"} => LoopEnded))
    /\ [](pc = "exit" => checked = Len(requested))
    /\ [][pc # "exit"]_vars

\* a run over more events than the hard cap has exited after 500 requests
C26_Witness ==
    /\ pc = "exit"
    /\ exitCode = 0
    /\ Len(uniqueEvents) > MAX_EVENTS_TO_CHECK
    /\ Len(requested) = MAX_EVENTS_TO_CHECK
    /\ checked = MAX_EVENTS_TO_CHECK

\* a run has exited with its events exhausted
C26_WitnessExhausted ==
    /\ pc = "exit"
    /\ stop = "exhausted"
    /\ Len(uniqueEvents) > 0
    /\ Len(requested) = Len(uniqueEvents)


-----------------------------------------------------------------------------
(* C27: buckets and their attribution ids.                                 *)

\* s cut to the sample cap
Capped(s) == SubSeq(s, 1, Min(Len(s), MAX_SAMPLES_PER_TYPE))

\* the details of the valid entries of a type in a response, in order
DetailsOf(liveDatas, name) ==
    LET ofType == SelectSeq(liveDatas, LAMBDA ld : Valid(ld) /\ ld.type.s = name)
    IN [k \in 1..Len(ofType) |-> ofType[k].details]

\* the bucket of position i before a step: empty if the step creates it
BucketBefore(i) ==
    IF i <= Len(typeMap) THEN typeMap[i] ELSE TypeEntry(typeMap'[i].name, <<>>, <<>>)

\* C27: in every reachable state each bucket of the discovered-type mapping
\* holds at least one sample and as many attribution ids as samples, so that
\* the first sample and the first id of every bucket are defined; and the i-th
\* id is the event the i-th sample came from: only a step that requests an
\* event's live data changes the mapping, and it appends to each bucket, up to
\* the cap, the details of the valid entries of that bucket's type in the
\* event's response, in order, and the event's ticker once for each of them.
C27_BucketsAttributed ==
    /\ [](\A i \in 1..Len(typeMap) :
             /\ Len(typeMap[i].samples) >= 1
             /\ Len(typeMap[i].eventTickers) = Len(typeMap[i].samples)
             /\ 1 \in DOMAIN typeMap[i].samples
             /\ 1 \in DOMAIN typeMap[i].eventTickers)
    /\ [][typeMap' # typeMap => FetchStep]_vars
    /\ [][FetchStep =>
            \A i \in 1..Len(typeMap') :
               LET event == requested'[Len(requested')]
                   came == DetailsOf(fetched'.liveDatas, typeMap'[i].name)
               IN /\ typeMap'[i].samples = Capped(BucketBefore(i).samples \o came)
                  /\ typeMap'[i].eventTickers =
                        Capped(BucketBefore(i).eventTickers
                                  \o [k \in 1..Len(came) |-> event])]_vars

\* a bucket holding samples of two events, the second event's entry being
\* the last of its response and the bucket not yet full
C27_Witness ==
    /\ pc \in {"step4", "after"}
    /\ \E i \in 1..Len(typeMap) :
          /\ Len(typeMap[i].samples) \in 2..(MAX_SAMPLES_PER_TYPE - 1)
          /\ typeMap[i].eventTickers[1] # typeMap[i].eventTickers[Len(typeMap[i].samples)]
          /\ ~fetched.threw
          /\ Len(fetched.liveDatas) > 0
          /\ typeMap[i].samples[Len(typeMap[i].samples)]
                = fetched.liveDatas[Len(fetched.liveDatas)].details


-----------------------------------------------------------------------------
(* C28: the position of the last discovery.                                *)

\* C28: in every reachable state 0 <= lastNewTypeAt <= checked, lastNewTypeAt
\* is 0 exactly when the mapping has no bucket, and when it is not 0 it is the
\* 1-based position, in the crawl order, of the event whose response created
\* the most recently created bucket; and no step decreases lastNewTypeAt.
C28_LastNewTypeAt ==
    /\ [](/\ 0 <= lastNewTypeAt
          /\ lastNewTypeAt <= checked
          /\ (lastNewTypeAt = 0 <=> Len(typeMap) = 0)
          /\ (lastNewTypeAt # 0 => lastNewTypeAt = LastDiscovery))
    /\ [][lastNewTypeAt' >= lastNewTypeAt]_vars
    /\ [][Len(typeMap') > Len(typeMap) => lastNewTypeAt' = checked']_vars
    /\ [][Len(typeMap') = Len(typeMap) => lastNewTypeAt' = lastNewTypeAt]_vars

\* a second bucket created at a later event than the first, and events
\* checked since
C28_Witness ==
    /\ Len(typeMap) >= 2
    /\ lastNewTypeAt > 1
    /\ lastNewTypeAt < checked
    /\ typeMap[1].eventTickers[1] # typeMap[Len(typeMap)].eventTickers[1]


-----------------------------------------------------------------------------
(* C29: the identifiers of the type-definitions document.                  *)

\* C29: distinct discovered type names get distinct generated names: any two
\* buckets of the mapping have different definition names (PascalCase +
\* Details) and different predicate names (is + PascalCase), and the
\* type-definitions document, once written, declares no definition name and no
\* predicate name twice.
C29_DistinctIdentifiers ==
    /\ \A i, j \in 1..Len(typeMap) :
          i # j =>
             /\ interfaceOf(typeMap[i]).interfaceName # interfaceOf(typeMap[j]).interfaceName
             /\ typeGuard(typeMap[i].name).guardName # typeGuard(typeMap[j].name).guardName
    /\ TypesWritten =>
          /\ \A i, j \in 1..Len(TypesFile.interfaces) :
                i # j => TypesFile.interfaces[i].interfaceName
                            # TypesFile.interfaces[j].interfaceName
          /\ \A i, j \in 1..Len(TypesFile.guards) :
                i # j => TypesFile.guards[i].guardName # TypesFile.guards[j].guardName


-----------------------------------------------------------------------------
(* C30: the derived values of the Proof demo home page.                    *)

\* C30: under any interleaving of wallet changes with sign and verify calls
\* in flight, the derived values are those of the connected wallet: a deep
\* link that is set carries the connected wallet's address, a signature that
\* is set is the connected wallet's, and a verification status other than
\* "unknown" is the status of the connected wallet; and whenever a step sets
\* one of them, the call that produced it was started for the wallet connected
\* at that moment.
C30_DerivedOfConnectedWallet ==
    /\ [](deepLink # JNull =>
             Truthy(walletAddress) /\ deepLink.wallet = walletAddress.s)
    /\ [](signature # JNull =>
             Truthy(walletAddress) /\ signature.signer = walletAddress.s)
    /\ [](verifyState # "unknown" =>
             /\ Truthy(walletAddress)
             /\ verifyState = "verified" <=> walletAddress.s \in VerifiedWallets)
    /\ [][(deepLink' # deepLink /\ deepLink' # JNull) =>
             signing.walletAddress = walletAddress']_vars
    /\ [][(verifyState' # verifyState /\ verifyState' # "unknown") =>
             verifying.walletAddress = walletAddress']_vars

====
